---- MODULE Spec2Model ----
(***************************************************************************)
(* A model of tauri-codegen's module resolver (src/resolver.rs) and type   *)
(* mapper (src/generator/type_mapper.rs).                                  *)
(*                                                                         *)
(* Representation:                                                         *)
(*  - a file path is the sequence of its components, <<"src","a","c.rs">>; *)
(*  - a module path is a sequence of segments, <<"crate","a","c">>;        *)
(*  - a HashMap is a function with a finite domain;                        *)
(*  - a reference string is the sequence of pieces that split("::") gives: *)
(*    ""  is <<"">>, "::" is <<"","">>, "a::User" is <<"a","User">>;       *)
(*  - a source file's content is the list of items syn parses from it;     *)
(*  - a generated TypeScript text is the sequence of the pieces that the   *)
(*    format strings concatenate: "User | null" is <<"User"," | ","null">>.*)
(***************************************************************************)
EXTENDS Integers, Sequences, FiniteSets, TLC

VARIABLES
    files,              \* ModuleResolver.files: path -> FileScope
    type_definitions,   \* ModuleResolver.type_definitions: name -> Seq(path)
    module_to_file,     \* ModuleResolver.module_to_file: module path -> path
    parsed,             \* log of the parse_file calls made so far: Seq(<<path, content>>)
    query,              \* the last resolve_type call: [type_path, from_file], or NoQuery
    result,             \* what that call returned
    prev,               \* set when the last call repeated the call before it:
                        \* that earlier call's query, result and resolver; else NoPrev
    ctx,                \* type mapper: the GeneratorContext
    ty,                 \* type mapper: the RustType handed to rust_to_typescript
    ts,                 \* type mapper: the TypeScript text returned, as the sequence
                        \* of pieces whose concatenation it is; <<>> before the call
    exported,           \* reachability filter: the exported-type table,
                        \* name -> the TypeExprs of its fields / variant payloads
    entry_points,       \* reachability filter: Seq([args, ret]) of the entry points
    queue,              \* reachability filter: the TypeExprs still to be visited
    reachable,          \* reachability filter: the names marked reachable, in
                        \* first-discovery order
    enclosing,          \* type extractor: the declaration the type expression is
                        \* written in, [kind, generics]: a struct or an enum with its
                        \* declared type parameters, or the fn of an entry point
    syn_ty,             \* type extractor: the syn::Type handed to the parser
    syntax,             \* type parser: the items of the file handed to parse_types
                        \* or parse_types_expanded
    expanded,           \* type parser: the mode, TRUE for parse_types_expanded
    structs,            \* type parser: the RustStructs returned
    enums,              \* type parser: the RustEnums returned
    types_parsed,       \* type parser: the call has returned
    commands,           \* command parser: the TauriCommands parse_commands returned
    commands_parsed     \* command parser: the call has returned

vars ==
    <<files, type_definitions, module_to_file, parsed, query, result, prev,
      ctx, ty, ts, exported, entry_points, queue, reachable, enclosing, syn_ty,
      syntax, expanded, structs, enums, types_parsed, commands, commands_parsed>>
resolverVars == <<files, type_definitions, module_to_file, parsed, query, result, prev>>
mapperVars == <<ctx, ty, ts>>
reachVars == <<exported, entry_points, queue, reachable>>
extractVars == <<enclosing, syn_ty>>
parserVars == <<syntax, expanded, structs, enums, types_parsed>>
commandVars == <<commands, commands_parsed>>
besideResolver == <<mapperVars, reachVars, extractVars, parserVars, commandVars>>
besideMapper == <<resolverVars, reachVars, extractVars, parserVars, commandVars>>
besideReach == <<resolverVars, mapperVars, extractVars, parserVars, commandVars>>
besideExtract == <<resolverVars, reachVars, parserVars, commandVars>>
besideParser == <<resolverVars, mapperVars, reachVars, extractVars, commandVars>>
besideCommands == <<resolverVars, mapperVars, reachVars, extractVars>>

----------------------------------------------------------------------------
(* Generic helpers *)

EmptyMap == [x \in {} |-> x]

MapInsert(m, k, v) == [x \in (DOMAIN m) \cup {k} |-> IF x = k THEN v ELSE m[x]]

Range(s) == {s[i] : i \in DOMAIN s}

\* slice[..len-1]
Front(s) == SubSeq(s, 1, Len(s) - 1)

Last(s) == s[Len(s)]

RECURSIVE SelectSeqBy(_, _)
\* iter().filter(keep): keep is a set of admissible elements
SelectSeqBy(s, keep) ==
    IF s = <<>> THEN <<>>
    ELSE IF Head(s) \in keep THEN <<Head(s)>> \o SelectSeqBy(Tail(s), keep)
         ELSE SelectSeqBy(Tail(s), keep)

----------------------------------------------------------------------------
(* ResolutionResult, with the abort of the process (a Rust panic) as a     *)
(* fourth outcome so that "never aborts" is a statement about the model.   *)

Found(p) == [tag |-> "Found", files |-> <<p>>]
NotFound == [tag |-> "NotFound", files |-> <<>>]
Ambiguous(ps) == [tag |-> "Ambiguous", files |-> ps]
Panicked == [tag |-> "Panic", files |-> <<>>]

\* Option<T>
None == [some |-> FALSE, val |-> <<>>]
Some(v) == [some |-> TRUE, val |-> v]

----------------------------------------------------------------------------
(* Syntax items of a file, as syn yields them *)

StructItem(n) == [kind |-> "Struct", name |-> n, tree |-> <<>>]
EnumItem(n) == [kind |-> "Enum", name |-> n, tree |-> <<>>]
UseItem(t) == [kind |-> "Use", name |-> "", tree |-> t]
OtherItem == [kind |-> "Other", name |-> "", tree |-> <<>>]

\* syn::UseTree
UsePath(id, sub) == [t |-> "Path", ident |-> id, rename |-> "", sub |-> <<sub>>]
UseName(id) == [t |-> "Name", ident |-> id, rename |-> "", sub |-> <<>>]
UseRename(id, as) == [t |-> "Rename", ident |-> id, rename |-> as, sub |-> <<>>]
UseGlob == [t |-> "Glob", ident |-> "", rename |-> "", sub |-> <<>>]
UseGroup(items) == [t |-> "Group", ident |-> "", rename |-> "", sub |-> items]

----------------------------------------------------------------------------
(* FileScope *)

DefaultScope ==
    [module_path |-> <<>>, local_types |-> EmptyMap,
     imports |-> EmptyMap, wildcard_imports |-> <<>>]

RECURSIVE parse_use_tree(_, _, _)
RECURSIVE parse_use_group(_, _, _)
\* resolver.rs parse_use_tree: returns the scope after the tree is recorded
parse_use_tree(tree, scope, prefix) ==
    CASE tree.t = "Path" ->
            parse_use_tree(tree.sub[1], scope, Append(prefix, tree.ident))
      [] tree.t = "Name" ->
            [scope EXCEPT !.imports =
                MapInsert(@, tree.ident, Append(prefix, tree.ident))]
      [] tree.t = "Rename" ->
            [scope EXCEPT !.imports =
                MapInsert(@, tree.rename, Append(prefix, tree.ident))]
      [] tree.t = "Glob" ->
            [scope EXCEPT !.wildcard_imports = Append(@, prefix)]
      [] tree.t = "Group" ->
            parse_use_group(tree.sub, scope, prefix)

\* the `for item in &group.items` loop of parse_use_tree
parse_use_group(items, scope, prefix) ==
    IF items = <<>> THEN scope
    ELSE parse_use_group(Tail(items), parse_use_tree(Head(items), scope, prefix), prefix)

----------------------------------------------------------------------------
(* path_to_module *)

BasePath == <<"src">>

IsPrefix(p, s) == Len(p) <= Len(s) /\ SubSeq(s, 1, Len(p)) = p

\* path.strip_prefix(base_path).unwrap_or(path)
strip_prefix_or(path, base) ==
    IF IsPrefix(base, path) THEN SubSeq(path, Len(base) + 1, Len(path)) ELSE path

\* str::trim_end_matches(".rs") on the component names of the model
trim_end_matches_rs(s) ==
    CASE s = "a.rs" -> "a"
      [] s = "b.rs" -> "b"
      [] s = "c.rs" -> "c"
      [] s = "d.rs" -> "d"
      [] s = "mod.rs" -> "mod"
      [] s = "lib.rs" -> "lib"
      [] s = "main.rs" -> "main"
      [] OTHER -> s

RECURSIVE path_components(_)
\* the loop over relative.components() in path_to_module
path_components(rel) ==
    IF rel = <<>> THEN <<>>
    ELSE IF Head(rel) \in {"mod.rs", "lib.rs", "main.rs"}
         THEN path_components(Tail(rel))
         ELSE <<trim_end_matches_rs(Head(rel))>> \o path_components(Tail(rel))

path_to_module(path, base) ==
    <<"crate">> \o path_components(strip_prefix_or(path, base))

----------------------------------------------------------------------------
(* parse_file *)

\* type_definitions.entry(name).or_default().push(path)
PushDefinition(defs, name, path) ==
    MapInsert(defs, name,
              IF name \in DOMAIN defs THEN Append(defs[name], path) ELSE <<path>>)

RECURSIVE parse_items(_, _, _)
\* the `for item in &syntax.items` loop of parse_file; st = [scope, defs]
parse_items(items, path, st) ==
    IF items = <<>> THEN st
    ELSE LET item == Head(items)
             st2 ==
               CASE item.kind = "Use" ->
                      [st EXCEPT !.scope = parse_use_tree(item.tree, st.scope, <<>>)]
                 [] item.kind \in {"Struct", "Enum"} ->
                      [scope |-> [st.scope EXCEPT !.local_types =
                                     MapInsert(@, item.name, item.kind)],
                       defs |-> PushDefinition(st.defs, item.name, path)]
                 [] OTHER -> st
         IN parse_items(Tail(items), path, st2)

\* resolver.rs parse_file on syntactically valid content (syn::parse_file's
\* error returns before any table is touched): the resolver after the call
parse_file(self, path, content, base) ==
    LET st == parse_items(content, path,
                [scope |-> [DefaultScope EXCEPT
                               !.module_path = path_to_module(path, base)],
                 defs |-> self.type_definitions])
    IN [files |-> MapInsert(self.files, path, st.scope),
        type_definitions |-> st.defs,
        module_to_file |-> MapInsert(self.module_to_file, st.scope.module_path, path)]

\* ModuleResolver::new()
NewResolver ==
    [files |-> EmptyMap, type_definitions |-> EmptyMap, module_to_file |-> EmptyMap]

----------------------------------------------------------------------------
(* resolution *)

\* resolver.rs are_siblings
are_siblings(path_a, path_b) ==
    IF Len(path_a) # Len(path_b) THEN FALSE
    ELSE Front(path_a) = Front(path_b)

\* resolver.rs find_type_in_module: Option<PathBuf>
find_type_in_module(self, type_name, module_path) ==
    IF module_path \in DOMAIN self.module_to_file
    THEN LET file_path == self.module_to_file[module_path]
         IN IF file_path \in DOMAIN self.files
               /\ type_name \in DOMAIN self.files[file_path].local_types
            THEN Some(file_path)
            ELSE None
    ELSE None

\* resolver.rs resolve_module_path
\* a lookup that stops at the file of the module and does not look whether
\* the file declares the type
resolve_module_path_any_type(self, module_path) ==
    IF Len(module_path) < 2 THEN NotFound
    ELSE IF Front(module_path) \in DOMAIN self.module_to_file
         THEN Found(self.module_to_file[Front(module_path)])
         ELSE NotFound

resolve_module_path(self, module_path) ==
    IF Len(module_path) < 2 THEN NotFound
    ELSE LET type_name == Last(module_path)
             mod_path == Front(module_path)
         IN IF mod_path \in DOMAIN self.module_to_file
            THEN LET file_path == self.module_to_file[mod_path]
                 IN IF file_path \in DOMAIN self.files
                       /\ type_name \in DOMAIN self.files[file_path].local_types
                    THEN Found(file_path)
                    ELSE NotFound
            ELSE NotFound

RECURSIVE search_wildcards_last(_, _, _)
\* mutant of search_wildcards: a later wildcard import overrides an earlier one
search_wildcards_last(self, name, wildcards) ==
    IF wildcards = <<>> THEN None
    ELSE LET later == search_wildcards_last(self, name, Tail(wildcards))
         IN IF later.some THEN later
            ELSE find_type_in_module(self, name, Head(wildcards))

RECURSIVE search_wildcards(_, _, _)
\* step 3 of resolve_simple_name: the loop over scope.wildcard_imports
search_wildcards(self, name, wildcards) ==
    IF wildcards = <<>> THEN None
    ELSE LET hit == find_type_in_module(self, name, Head(wildcards))
         IN IF hit.some THEN hit
            ELSE search_wildcards(self, name, Tail(wildcards))

\* step 4 of resolve_simple_name: the lookup in type_definitions
lookup_workspace(self, name, scope) ==
    IF name \in DOMAIN self.type_definitions
    THEN LET locations == self.type_definitions[name]
             from_module == scope.module_path
             sibs == SelectSeqBy(locations,
                        {loc \in Range(locations) :
                            /\ loc \in DOMAIN self.files
                            /\ are_siblings(self.files[loc].module_path, from_module)})
         IN IF Len(locations) = 1 THEN Found(locations[1])
            ELSE IF Len(sibs) = 1 THEN Found(sibs[1])
            ELSE Ambiguous(locations)
    ELSE NotFound

\* mutant of resolve_simple_name: an import that leads nowhere falls through
\* to the wildcard imports and the whole-program lookup
resolve_simple_name_fallthrough(self, name, scope, from_file) ==
    LET imported == IF name \in DOMAIN scope.imports
                    THEN resolve_module_path(self, scope.imports[name])
                    ELSE NotFound
        hit == search_wildcards(self, name, scope.wildcard_imports)
    IN IF name \in DOMAIN scope.local_types THEN Found(from_file)
       ELSE IF imported.tag = "Found" THEN imported
       ELSE IF hit.some THEN Found(hit.val)
       ELSE lookup_workspace(self, name, scope)

\* resolver.rs resolve_simple_name
resolve_simple_name(self, name, scope, from_file) ==
    IF name \in DOMAIN scope.local_types THEN Found(from_file)
    ELSE IF name \in DOMAIN scope.imports
         THEN resolve_module_path(self, scope.imports[name])
    ELSE LET hit == search_wildcards(self, name, scope.wildcard_imports)
         IN IF hit.some THEN Found(hit.val)
            ELSE lookup_workspace(self, name, scope)

RECURSIVE walk_segments_saturating(_, _)
\* mutant of walk_segments: a `super` at the crate root stays at the root
walk_segments_saturating(segs, current_path) ==
    IF segs = <<>> THEN Some(current_path)
    ELSE CASE Head(segs) = "super" ->
                walk_segments_saturating(Tail(segs),
                    IF Len(current_path) > 1 THEN Front(current_path)
                    ELSE current_path)
           [] Head(segs) = "self" ->
                walk_segments_saturating(Tail(segs), current_path)
           [] OTHER ->
                walk_segments_saturating(Tail(segs), Append(current_path, Head(segs)))

RECURSIVE walk_segments(_, _)
\* the `for segment in &segments[iter_start..]` loop of resolve_canonical_path
walk_segments(segs, current_path) ==
    IF segs = <<>> THEN Some(current_path)
    ELSE CASE Head(segs) = "super" ->
                IF Len(current_path) > 1
                THEN walk_segments(Tail(segs), Front(current_path))
                ELSE None
           [] Head(segs) = "self" -> walk_segments(Tail(segs), current_path)
           [] OTHER -> walk_segments(Tail(segs), Append(current_path, Head(segs)))

\* resolver.rs resolve_canonical_path: Option<Vec<String>>
resolve_canonical_path(segments, scope) ==
    LET current_path == IF segments[1] = "crate" THEN <<"crate">>
                        ELSE scope.module_path
        iter_start == IF segments[1] = "crate" THEN 1 ELSE 0
    IN walk_segments(SubSeq(segments, iter_start + 1, Len(segments)), current_path)

\* mutant of resolve_path: the relative walk is tried first and the import
\* alias only when the walk finds nothing
resolve_path_walk_first(self, segments, scope) ==
    IF Len(segments) = 0 THEN Panicked
    ELSE LET first == segments[1]
             path_result == resolve_canonical_path(segments, scope)
             walked == IF path_result.some
                       THEN resolve_module_path(self, path_result.val)
                       ELSE NotFound
         IN IF walked.tag = "Found" THEN walked
            ELSE IF first \in DOMAIN scope.imports
            THEN resolve_module_path(self,
                    scope.imports[first] \o SubSeq(segments, 2, Len(segments)))
            ELSE NotFound

\* resolver.rs resolve_path; segments[0] on an empty slice is an index
\* out of bounds, which panics
resolve_path(self, segments, scope) ==
    IF Len(segments) = 0 THEN Panicked
    ELSE LET first == segments[1]
         IN IF first \in DOMAIN scope.imports
            THEN resolve_module_path(self,
                    scope.imports[first] \o SubSeq(segments, 2, Len(segments)))
            ELSE LET path_result == resolve_canonical_path(segments, scope)
                 IN IF path_result.some
                    THEN resolve_module_path(self, path_result.val)
                    ELSE NotFound

\* type_path.split("::").filter(|s| !s.is_empty()).collect()
split_segments(type_path) == SelectSeq(type_path, LAMBDA s : s # "")

\* resolver.rs resolve_type
resolve_type(self, type_path, from_file) ==
    LET segments == split_segments(type_path)
    IN IF from_file \notin DOMAIN self.files THEN NotFound
       ELSE LET scope == self.files[from_file]
            IN IF Len(segments) = 1
               THEN resolve_simple_name(self, segments[1], scope, from_file)
               ELSE resolve_path(self, segments, scope)

----------------------------------------------------------------------------
(* models/rust_type.rs: RustType *)

Primitive(n) == [k |-> "Primitive", name |-> n, args |-> <<>>]
Vec(inner) == [k |-> "Vec", name |-> "", args |-> <<inner>>]
Option(inner) == [k |-> "Option", name |-> "", args |-> <<inner>>]
Result(ok) == [k |-> "Result", name |-> "", args |-> <<ok>>]
HashMap(key, value) == [k |-> "HashMap", name |-> "", args |-> <<key, value>>]
Tuple(types) == [k |-> "Tuple", name |-> "", args |-> types]
Custom(n) == [k |-> "Custom", name |-> n, args |-> <<>>]
Generic(n) == [k |-> "Generic", name |-> n, args |-> <<>>]
Unit == [k |-> "Unit", name |-> "", args |-> <<>>]
Unknown(desc) == [k |-> "Unknown", name |-> desc, args |-> <<>>]

----------------------------------------------------------------------------
(* parser/type_extractor.rs. A syn::Type is a record: a path with the      *)
(* identifier of its last segment and that segment's generic arguments, a  *)
(* tuple, a reference, a slice, or any other type. A generic argument is   *)
(* a type or a lifetime.                                                   *)

TypePath(ident, arguments) == [s |-> "Path", ident |-> ident, args |-> arguments]
TypeTuple(elems) == [s |-> "Tuple", ident |-> "", args |-> elems]
TypeReference(elem) == [s |-> "Reference", ident |-> "", args |-> <<elem>>]
TypeSlice(elem) == [s |-> "Slice", ident |-> "", args |-> <<elem>>]
TypeOther == [s |-> "Other", ident |-> "", args |-> <<>>]
Lifetime == [s |-> "Lifetime", ident |-> "", args |-> <<>>]

\* extract_single_generic: the first generic argument, when it is a type
extract_single_generic(arguments) ==
    IF Len(arguments) >= 1 /\ arguments[1] # Lifetime
    THEN Some(arguments[1]) ELSE None

\* extract_two_generics: the first two generic arguments, when both are types
extract_two_generics(arguments) ==
    IF Len(arguments) >= 2 /\ arguments[1] # Lifetime /\ arguments[2] # Lifetime
    THEN Some(<<arguments[1], arguments[2]>>) ELSE None

\* an extractor that looks a name up in the fixed table before it looks at
\* the generic parameters
GenericHit_after_table(name, generic_params) ==
    /\ name \in generic_params
    /\ name \notin {"String", "str", "char", "bool", "Duration", "Value", "Bytes"}

\* an extractor that takes every one-letter upper-case name for a parameter
GenericHit_by_shape(name, generic_params) ==
    name \in generic_params \cup {"T", "U", "K", "V"}

\* "if generic_params.contains(&name)"
GenericHit(name, generic_params) == name \in generic_params

RECURSIVE parse_type_with_context(_, _)
parse_type_with_context(t, generic_params) ==
    CASE t.s = "Path" ->
            LET name == t.ident
            IN IF GenericHit(name, generic_params) THEN Generic(name)
               ELSE IF name \in {"String", "str", "char"} THEN Primitive("String")
               ELSE IF name \in {"i8", "i16", "i32", "i64", "i128", "isize",
                                  "u8", "u16", "u32", "u64", "u128", "usize",
                                  "f32", "f64"} THEN Primitive(name)
               ELSE IF name = "bool" THEN Primitive("bool")
               ELSE IF name \in {"DateTime", "NaiveDateTime", "NaiveDate", "NaiveTime",
                                  "OffsetDateTime", "PrimitiveDateTime", "Date", "Time",
                                  "Uuid", "Decimal", "BigDecimal", "PathBuf", "Path",
                                  "Url", "IpAddr", "Ipv4Addr", "Ipv6Addr"}
                    THEN Primitive(name)
               ELSE IF name \in {"Duration", "Value", "Bytes"} THEN Primitive(name)
               ELSE IF name = "Vec" THEN
                    LET inner == extract_single_generic(t.args)
                    IN IF inner.some
                       THEN Vec(parse_type_with_context(inner.val, generic_params))
                       ELSE Unknown("Vec<?>")
               ELSE IF name = "Option" THEN
                    LET inner == extract_single_generic(t.args)
                    IN IF inner.some
                       THEN Option(parse_type_with_context(inner.val, generic_params))
                       ELSE Unknown("Option<?>")
               ELSE IF name = "Result" THEN
                    LET inner == extract_single_generic(t.args)
                    IN IF inner.some
                       THEN Result(parse_type_with_context(inner.val, generic_params))
                       ELSE Unknown("Result<?>")
               ELSE IF name \in {"HashMap", "BTreeMap"} THEN
                    LET kv == extract_two_generics(t.args)
                    IN IF kv.some
                       THEN HashMap(parse_type_with_context(kv.val[1], generic_params),
                                    parse_type_with_context(kv.val[2], generic_params))
                       ELSE Unknown("HashMap<?, ?>")
               ELSE Custom(name)
      [] t.s = "Tuple" ->
            IF t.args = <<>> THEN Unit
            ELSE Tuple([i \in DOMAIN t.args |->
                          parse_type_with_context(t.args[i], generic_params)])
      [] t.s = "Reference" -> parse_type_with_context(t.args[1], generic_params)
      [] t.s = "Slice" -> Vec(parse_type_with_context(t.args[1], generic_params))
      [] OTHER -> Unknown("{:?}")

\* parse_type: "without generic context"
parse_type(t) == parse_type_with_context(t, {})

----------------------------------------------------------------------------
(* utils.rs. The name of a field or of a variant, and the value of a       *)
(* rename, is the sequence of its characters: `field_a` is                 *)
(* <<"f","i","e","l","d","_","a">>.                                        *)

LowerLetters ==
    <<"a", "b", "c", "d", "e", "f", "g", "h", "i", "j", "k", "l", "m",
      "n", "o", "p", "q", "r", "s", "t", "u", "v", "w", "x", "y", "z">>
UpperLetters ==
    <<"A", "B", "C", "D", "E", "F", "G", "H", "I", "J", "K", "L", "M",
      "N", "O", "P", "Q", "R", "S", "T", "U", "V", "W", "X", "Y", "Z">>

IndexIn(letters, c) == CHOOSE i \in DOMAIN letters : letters[i] = c

\* char::is_uppercase
is_uppercase(c) == c \in Range(UpperLetters)
\* char::to_ascii_lowercase, and str::to_lowercase on one character
to_ascii_lowercase(c) ==
    IF c \in Range(UpperLetters) THEN LowerLetters[IndexIn(UpperLetters, c)] ELSE c
\* char::to_ascii_uppercase, and str::to_uppercase on one character
to_ascii_uppercase(c) ==
    IF c \in Range(LowerLetters) THEN UpperLetters[IndexIn(LowerLetters, c)] ELSE c

\* str::to_lowercase, str::to_uppercase
to_lowercase(str) == [i \in DOMAIN str |-> to_ascii_lowercase(str[i])]
to_uppercase(str) == [i \in DOMAIN str |-> to_ascii_uppercase(str[i])]

RECURSIVE camel_loop(_, _, _, _)
\* the loop of to_camel_case over the characters left
camel_loop(rest, out, capitalize_next, first_char) ==
    IF rest = <<>> THEN out
    ELSE LET c == Head(rest)
         IN IF c = "_" THEN camel_loop(Tail(rest), out, TRUE, first_char)
            ELSE IF capitalize_next
                 THEN camel_loop(Tail(rest), Append(out, to_ascii_uppercase(c)),
                                 FALSE, first_char)
            ELSE IF first_char
                 THEN camel_loop(Tail(rest), Append(out, to_ascii_lowercase(c)),
                                 capitalize_next, FALSE)
            ELSE camel_loop(Tail(rest), Append(out, c), capitalize_next, first_char)

to_camel_case(str) == camel_loop(str, <<>>, FALSE, TRUE)

RECURSIVE snake_loop(_, _, _)
\* the loop of to_snake_case from the i-th character (counted from 0) on
snake_loop(rest, i, out) ==
    IF rest = <<>> THEN out
    ELSE LET c == Head(rest)
             pushed == IF is_uppercase(c) /\ i > 0 THEN Append(out, "_") ELSE out
         IN snake_loop(Tail(rest), i + 1, Append(pushed, to_ascii_lowercase(c)))

\* a snake case that puts an underscore before the first letter as well
to_snake_case_boundary_at_zero(str) ==
    IF str # <<>> /\ is_uppercase(str[1])
    THEN <<"_">> \o snake_loop(str, 0, <<>>)
    ELSE snake_loop(str, 0, <<>>)

to_snake_case(str) == snake_loop(str, 0, <<>>)
to_screaming_snake_case(str) == to_uppercase(to_snake_case(str))
\* to_snake_case(s).replace('_', "-")
to_kebab_case(str) ==
    LET snake == to_snake_case(str)
    IN [i \in DOMAIN snake |-> IF snake[i] = "_" THEN "-" ELSE snake[i]]
to_screaming_kebab_case(str) == to_uppercase(to_kebab_case(str))

----------------------------------------------------------------------------
(* parser/type_parser.rs: the syntax it reads. A path is the sequence of   *)
(* its segments. An attribute has a path and, when it is of the list form  *)
(* #[path(...)], the arguments between its parentheses: paths for a        *)
(* derive, Metas for the others. meta is the variant of syn::Meta the      *)
(* attribute is.                                                           *)

Attribute(path, arguments) ==
    [path |-> path, list |-> TRUE, args |-> arguments, meta |-> "List"]
\* #[path]
PlainAttribute(path) == [path |-> path, list |-> FALSE, args |-> <<>>, meta |-> "Path"]
\* #[path = value]
NameValueAttribute(path) ==
    [path |-> path, list |-> FALSE, args |-> <<>>, meta |-> "NameValue"]

\* syn::Meta inside an attribute: name, name = "literal", name = other, name(...)
MetaPath(name) == [m |-> "Path", name |-> name, str |-> FALSE, val |-> <<>>]
MetaNameValue(name, literal) == [m |-> "NameValue", name |-> name, str |-> TRUE, val |-> literal]
MetaNameValueOther(name) == [m |-> "NameValue", name |-> name, str |-> FALSE, val |-> <<>>]
MetaList(name) == [m |-> "List", name |-> name, str |-> FALSE, val |-> <<>>]

\* syn::Field; ident is <<>> for a positional field
Field(ident, field_ty, attrs) == [ident |-> ident, ty |-> field_ty, attrs |-> attrs]
\* syn::Fields
FieldsNamed(named) == [style |-> "Named", fields |-> named]
FieldsUnnamed(unnamed) == [style |-> "Unnamed", fields |-> unnamed]
FieldsUnit == [style |-> "Unit", fields |-> <<>>]
\* syn::Variant
Variant(ident, attrs, fields) == [ident |-> ident, attrs |-> attrs, fields |-> fields]

\* syn::Item; generics holds the type parameters of item.generics.params
ItemStruct(ident, generics, attrs, fields) ==
    [item |-> "Struct", ident |-> ident, generics |-> generics, attrs |-> attrs,
     fields |-> fields]
ItemEnum(ident, generics, attrs, variants) ==
    [item |-> "Enum", ident |-> ident, generics |-> generics, attrs |-> attrs,
     variants |-> variants]
\* impl trait_ for self_ty; an inherent impl has no trait_
ItemImpl(trait_, self_ty) ==
    [item |-> "Impl", trait_ |-> trait_, self_ty |-> self_ty, items |-> <<>>]
\* mod m { content }, or mod m; with no content
ItemMod(content) == [item |-> "Mod", content |-> content]
\* const _: () = { stmts };  (block TRUE), or a const with another initializer
ItemConst(block, stmts) == [item |-> "Const", block |-> block, stmts |-> stmts]
ItemOther == [item |-> "Other"]

----------------------------------------------------------------------------
(* parser/type_parser.rs: which declarations are exported *)

\* syn::Path::is_ident
is_ident(path, name) == path = <<name>>

SerdeTraits == {"Serialize", "Deserialize"}

\* the two tests is_serializable makes of one path of a derive's arguments:
\* get_ident (a path of one segment), and the last segment
DerivesSerde(path) ==
    \/ Len(path) = 1 /\ path[1] \in SerdeTraits
    \/ Len(path) >= 1 /\ Last(path) \in SerdeTraits

is_serializable(attrs) ==
    \E i \in DOMAIN attrs :
        /\ attrs[i].list
        /\ is_ident(attrs[i].path, "derive")
        /\ \E j \in DOMAIN attrs[i].args : DerivesSerde(attrs[i].args[j])

\* "attr.path().is_ident("serde")" for some attribute of the list
has_serde_attr(attrs) == \E i \in DOMAIN attrs : is_ident(attrs[i].path, "serde")

has_serde_field_attrs(item) ==
    /\ item.fields.style = "Named"
    /\ \E i \in DOMAIN item.fields.fields : has_serde_attr(item.fields.fields[i].attrs)

has_serde_variant_attrs(item) ==
    \E v \in DOMAIN item.variants :
        \/ has_serde_attr(item.variants[v].attrs)
        \/ /\ item.variants[v].fields.style \in {"Named", "Unnamed"}
           /\ \E i \in DOMAIN item.variants[v].fields.fields :
                  has_serde_attr(item.variants[v].fields.fields[i].attrs)

\* check_serde_impl: the names it inserts into the result
check_serde_impl(item_impl) ==
    IF /\ item_impl.trait_.some
       /\ item_impl.trait_.val # <<>>
       /\ Last(item_impl.trait_.val) \in SerdeTraits
       /\ item_impl.self_ty.s = "Path"
    THEN {item_impl.self_ty.ident}
    ELSE {}

RECURSIVE collect_serializable_types_recursive(_)
collect_serializable_types_recursive(items) ==
    UNION { LET item == items[i]
            IN CASE item.item = "Impl" -> check_serde_impl(item)
                 [] item.item = "Mod" ->
                        IF item.content.some
                        THEN collect_serializable_types_recursive(item.content.val)
                        ELSE {}
                 [] item.item = "Const" ->
                        IF item.block
                        THEN UNION { IF item.stmts[j].item = "Impl"
                                     THEN check_serde_impl(item.stmts[j]) ELSE {}
                                     : j \in DOMAIN item.stmts }
                        ELSE {}
                 [] OTHER -> {}
            : i \in DOMAIN items }

collect_serializable_types(items) == collect_serializable_types_recursive(items)

\* an export test that lets serde field attributes count in either mode
should_include_any_mode(item, is_expanded, serializable_types) ==
    \/ item.ident \in serializable_types
    \/ is_serializable(item.attrs)
    \/ IF item.item = "Struct" THEN has_serde_field_attrs(item)
       ELSE has_serde_variant_attrs(item)

\* `should_include` of parse_items, for a struct and for an enum
should_include(item, is_expanded, serializable_types) ==
    IF is_expanded
    THEN \/ item.ident \in serializable_types
         \/ is_serializable(item.attrs)
         \/ IF item.item = "Struct" THEN has_serde_field_attrs(item)
            ELSE has_serde_variant_attrs(item)
    ELSE is_serializable(item.attrs)

----------------------------------------------------------------------------
(* parser/type_parser.rs: the records of the exported declarations *)

RECURSIVE serde_metas(_)
\* the Metas of the #[serde(...)] attributes of a list, in the order in which
\* the nested loops of get_serde_rename and parse_serde_container_attrs
\* come to them
serde_metas(attrs) ==
    IF attrs = <<>> THEN <<>>
    ELSE (IF Head(attrs).list /\ is_ident(Head(attrs).path, "serde")
          THEN Head(attrs).args ELSE <<>>)
         \o serde_metas(Tail(attrs))

\* the string literals given to `name = "..."` among metas, in order
StrValues(metas, name) ==
    LET hits == SelectSeq(metas, LAMBDA meta :
                    meta.m = "NameValue" /\ meta.name = name /\ meta.str)
    IN [i \in DOMAIN hits |-> hits[i].val]

\* get_serde_rename: the first rename = "..." found
get_serde_rename(attrs) ==
    LET renames == StrValues(serde_metas(attrs), "rename")
    IN IF renames = <<>> THEN None ELSE Some(Head(renames))

\* the value a field of SerdeContainerAttrs is left with: the last one assigned
LastAssigned(values) == IF values = <<>> THEN None ELSE Some(Last(values))

parse_serde_container_attrs(attrs) ==
    LET metas == serde_metas(attrs)
    IN [rename_all |-> LastAssigned(StrValues(metas, "rename_all")),
        tag |-> LastAssigned(StrValues(metas, "tag")),
        content |-> LastAssigned(StrValues(metas, "content")),
        untagged |-> \E i \in DOMAIN metas :
                        metas[i].m = "Path" /\ metas[i].name = "untagged"]

\* apply_rename_all
apply_rename_all(name, rename_all) ==
    IF ~rename_all.some THEN None
    ELSE LET rule == rename_all.val
         IN Some(CASE rule = "lowercase" -> to_lowercase(name)
                   [] rule = "UPPERCASE" -> to_uppercase(name)
                   [] rule = "camelCase" -> to_camel_case(name)
                   [] rule = "snake_case" -> to_snake_case(name)
                   [] rule = "SCREAMING_SNAKE_CASE" -> to_screaming_snake_case(name)
                   [] rule = "kebab-case" -> to_kebab_case(name)
                   [] rule = "SCREAMING-KEBAB-CASE" -> to_screaming_kebab_case(name)
                   [] rule = "PascalCase" -> name
                   [] OTHER -> name)

\* Option::unwrap_or
unwrap_or(opt, default) == IF opt.some THEN opt.val ELSE default
\* Option::or_else
or_else(opt, other) == IF opt.some THEN opt ELSE other

Digits == <<"0", "1", "2", "3", "4", "5", "6", "7", "8", "9">>

RECURSIVE decimal(_)
\* the characters of format!("{}", i)
decimal(i) == IF i < 10 THEN <<Digits[i + 1]>> ELSE Append(decimal(i \div 10), Digits[(i % 10) + 1])

\* models/types.rs StructField, as parse_struct and parse_enum build it
StructField(name, field_ty) == [name |-> name, ty |-> field_ty]

\* the fields of a struct or of a struct-like variant, named
named_fields(named, generic_params) ==
    [i \in DOMAIN named |->
        StructField(unwrap_or(get_serde_rename(named[i].attrs), named[i].ident),
                    parse_type_with_context(named[i].ty, generic_params))]

parse_struct(item, source_file) ==
    LET generic_params == Range(item.generics)
        fields ==
            CASE item.fields.style = "Named" ->
                    named_fields(item.fields.fields, generic_params)
              [] item.fields.style = "Unnamed" ->
                    [i \in DOMAIN item.fields.fields |->
                        StructField(<<"f", "i", "e", "l", "d">> \o decimal(i - 1),
                                    parse_type_with_context(item.fields.fields[i].ty,
                                                            generic_params))]
              [] OTHER -> <<>>
    IN [name |-> item.ident, generics |-> item.generics, fields |-> fields,
        source_file |-> source_file]

\* models/types.rs EnumRepresentation
External == [repr |-> "External", tag |-> <<>>, content |-> <<>>]
Internal(tag) == [repr |-> "Internal", tag |-> tag, content |-> <<>>]
Adjacent(tag, content) == [repr |-> "Adjacent", tag |-> tag, content |-> content]
Untagged == [repr |-> "Untagged", tag |-> <<>>, content |-> <<>>]

\* models/types.rs VariantData
DataUnit == [data |-> "Unit", types |-> <<>>, fields |-> <<>>]
DataTuple(types) == [data |-> "Tuple", types |-> types, fields |-> <<>>]
DataStruct(fields) == [data |-> "Struct", types |-> <<>>, fields |-> fields]

EnumVariant(name, data) == [name |-> name, data |-> data]

\* a variant naming in which the container's rule comes before the
\* variant's own rename
variant_name_rule_first(variant, container_attrs) ==
    unwrap_or(or_else(apply_rename_all(variant.ident, container_attrs.rename_all),
                      get_serde_rename(variant.attrs)),
              variant.ident)

\* `final_name` of a variant in parse_enum
variant_name(variant, container_attrs) ==
    unwrap_or(or_else(get_serde_rename(variant.attrs),
                      apply_rename_all(variant.ident, container_attrs.rename_all)),
              variant.ident)

\* a representation that looks at the tag before the untagged flag
representation_tag_first(container_attrs) ==
    IF container_attrs.tag.some
    THEN IF container_attrs.content.some
         THEN Adjacent(container_attrs.tag.val, container_attrs.content.val)
         ELSE Internal(container_attrs.tag.val)
    ELSE IF container_attrs.untagged THEN Untagged
    ELSE External

\* `let representation = ...` of parse_enum
representation(container_attrs) ==
    IF container_attrs.untagged THEN Untagged
    ELSE IF container_attrs.tag.some
         THEN IF container_attrs.content.some
              THEN Adjacent(container_attrs.tag.val, container_attrs.content.val)
              ELSE Internal(container_attrs.tag.val)
    ELSE External

parse_enum(item, source_file) ==
    LET generic_params == Range(item.generics)
        container_attrs == parse_serde_container_attrs(item.attrs)
        variants ==
            [v \in DOMAIN item.variants |->
                LET variant == item.variants[v]
                    data ==
                        CASE variant.fields.style = "Unit" -> DataUnit
                          [] variant.fields.style = "Unnamed" ->
                                DataTuple([i \in DOMAIN variant.fields.fields |->
                                    parse_type_with_context(variant.fields.fields[i].ty,
                                                            generic_params)])
                          [] OTHER ->
                                DataStruct(named_fields(variant.fields.fields, generic_params))
                IN EnumVariant(variant_name(variant, container_attrs), data)]
    IN [name |-> item.ident, generics |-> item.generics, variants |-> variants,
        source_file |-> source_file, representation |-> representation(container_attrs)]

RECURSIVE type_parser_parse_items(_, _, _, _, _)
\* parse_items of type_parser.rs; out is [structs, enums], the two vectors it pushes to
type_parser_parse_items(items, source_file, is_expanded, serializable_types, out) ==
    IF items = <<>> THEN out
    ELSE LET item == Head(items)
             after ==
                CASE item.item = "Struct" ->
                        IF should_include(item, is_expanded, serializable_types)
                        THEN [out EXCEPT !.structs = Append(@, parse_struct(item, source_file))]
                        ELSE out
                  [] item.item = "Enum" ->
                        IF should_include(item, is_expanded, serializable_types)
                        THEN [out EXCEPT !.enums = Append(@, parse_enum(item, source_file))]
                        ELSE out
                  [] item.item = "Mod" ->
                        IF item.content.some
                        THEN type_parser_parse_items(item.content.val, source_file, is_expanded,
                                         serializable_types, out)
                        ELSE out
                  [] OTHER -> out
         IN type_parser_parse_items(Tail(items), source_file, is_expanded, serializable_types, after)

\* parse_types_internal, from the items syn::parse_file returns
parse_types_internal(items, source_file, is_expanded) ==
    LET serializable_types ==
            IF is_expanded THEN collect_serializable_types(items) ELSE {}
    IN type_parser_parse_items(items, source_file, is_expanded, serializable_types,
                   [structs |-> <<>>, enums |-> <<>>])

parse_types(items, source_file) == parse_types_internal(items, source_file, FALSE)
parse_types_expanded(items, source_file) == parse_types_internal(items, source_file, TRUE)

----------------------------------------------------------------------------
(* parser/command_parser.rs *)

\* syn::Pat of a typed argument: an identifier, or any other pattern
PatIdent(ident) == [pat |-> "Ident", ident |-> ident]
PatOther == [pat |-> "Other", ident |-> ""]

\* syn::FnArg
FnArgTyped(pat, arg_ty) == [arg |-> "Typed", pat |-> pat, ty |-> arg_ty]
FnArgReceiver == [arg |-> "Receiver", pat |-> PatOther, ty |-> TypeOther]

\* syn::ReturnType
ReturnDefault == [ret |-> "Default", ty |-> TypeOther]
ReturnType(return_ty) == [ret |-> "Type", ty |-> return_ty]

\* syn::Signature
Signature(ident, inputs, output) == [ident |-> ident, inputs |-> inputs, output |-> output]

\* syn::ItemFn, syn::ImplItem and an inherent impl block with its items
ItemFn(attrs, sig) == [item |-> "Fn", attrs |-> attrs, sig |-> sig]
ImplItemFn(attrs, sig) == [impl_item |-> "Fn", attrs |-> attrs, sig |-> sig]
ImplItemOther == [impl_item |-> "Other", attrs |-> <<>>, sig |-> Signature("", <<>>, ReturnDefault)]
ItemImplOf(self_ty, items) ==
    [item |-> "Impl", trait_ |-> None, self_ty |-> self_ty, items |-> items]

\* models/command.rs
CommandArg(name, arg_ty) == [name |-> name, ty |-> arg_ty]
TauriCommand(name, args, return_type, source_file) ==
    [name |-> name, args |-> args, return_type |-> return_type, source_file |-> source_file]

\* is_tauri_command, and is_tauri_command_method which reads the same
is_tauri_command(func) ==
    \E i \in DOMAIN func.attrs :
        /\ func.attrs[i].meta = "Path"
        /\ LET segments == func.attrs[i].path
           IN \/ Len(segments) = 2 /\ segments[1] = "tauri" /\ segments[2] = "command"
              \/ Len(segments) = 1 /\ segments[1] = "command"

TauriSpecialTypes == {"State", "Window", "AppHandle", "Webview", "WebviewWindow"}

is_tauri_special_type(arg_ty) ==
    /\ arg_ty.s = "Path"
    /\ arg_ty.ident \in TauriSpecialTypes

\* parse_fn_arg: None for an argument that is skipped
parse_fn_arg(arg) ==
    IF arg.arg = "Typed"
    THEN IF arg.pat.pat # "Ident" THEN None
         ELSE IF is_tauri_special_type(arg.ty) THEN None
         ELSE Some(CommandArg(arg.pat.ident, parse_type(arg.ty)))
    ELSE None

\* a return type parser that leaves the unit out only when nothing is declared
parse_return_type_keeps_unit(return_type) ==
    IF return_type.ret = "Default" THEN None ELSE Some(parse_type(return_type.ty))

parse_return_type(return_type) ==
    IF return_type.ret = "Default" THEN None
    ELSE LET rust_type == parse_type(return_type.ty)
         IN IF rust_type = Unit THEN None ELSE Some(rust_type)

\* Iterator::filter_map(parse_fn_arg).collect()
filter_map_args(inputs) ==
    LET hits == SelectSeq(inputs, LAMBDA arg : parse_fn_arg(arg).some)
    IN [i \in DOMAIN hits |-> parse_fn_arg(hits[i]).val]

\* parse_command_fn, and parse_command_method which reads the same
parse_command_fn(func, source_file) ==
    TauriCommand(func.sig.ident, filter_map_args(func.sig.inputs),
                 parse_return_type(func.sig.output), source_file)

\* the commands among the functions of a list of items or of impl items
commands_of(fns, source_file) ==
    LET hits == SelectSeq(fns, LAMBDA func : is_tauri_command(func))
    IN [i \in DOMAIN hits |-> parse_command_fn(hits[i], source_file)]

RECURSIVE parse_commands(_, _)
\* parse_commands, from the items syn::parse_file returns
parse_commands(items, source_file) ==
    IF items = <<>> THEN <<>>
    ELSE LET item == Head(items)
             found ==
                CASE item.item = "Fn" -> commands_of(<<item>>, source_file)
                  [] item.item = "Impl" ->
                        commands_of(SelectSeq(item.items,
                                              LAMBDA impl_item : impl_item.impl_item = "Fn"),
                                    source_file)
                  [] item.item = "Mod" ->
                        IF item.content.some
                        THEN commands_of(SelectSeq(item.content.val,
                                                   LAMBDA mod_item : mod_item.item = "Fn"),
                                         source_file)
                        ELSE <<>>
                  [] OTHER -> <<>>
         IN found \o parse_commands(Tail(items), source_file)

----------------------------------------------------------------------------
(* known_types.rs *)

PRIMITIVE_STRING_TYPES == {"String", "str", "char"}
SIGNED_INTEGER_TYPES == {"i8", "i16", "i32", "i64", "i128", "isize"}
UNSIGNED_INTEGER_TYPES == {"u8", "u16", "u32", "u64", "u128", "usize"}
FLOAT_TYPES == {"f32", "f64"}
BOOL_TYPE == "bool"
EXTERNAL_STRING_TYPES ==
    {"DateTime", "NaiveDateTime", "NaiveDate", "NaiveTime", "OffsetDateTime",
     "PrimitiveDateTime", "Date", "Time", "Uuid", "Decimal", "BigDecimal",
     "PathBuf", "Path", "IpAddr", "Ipv4Addr", "Ipv6Addr", "Url"}
EXTERNAL_NUMBER_TYPES == {"Duration"}
JSON_VALUE_TYPE == "Value"
BYTES_TYPE == "Bytes"

\* known_types::primitive_to_typescript: Option<&'static str>
known_primitive_to_typescript(name) ==
    IF name \in PRIMITIVE_STRING_TYPES THEN Some("string")
    ELSE IF name \in SIGNED_INTEGER_TYPES \cup UNSIGNED_INTEGER_TYPES \cup FLOAT_TYPES
         THEN Some("number")
    ELSE IF name = BOOL_TYPE THEN Some("boolean")
    ELSE IF name \in EXTERNAL_STRING_TYPES THEN Some("string")
    ELSE IF name \in EXTERNAL_NUMBER_TYPES THEN Some("number")
    ELSE IF name = JSON_VALUE_TYPE THEN Some("unknown")
    ELSE IF name = BYTES_TYPE THEN Some("number[]")
    ELSE None

----------------------------------------------------------------------------
(* generator/mod.rs: GeneratorContext, and generator/type_mapper.rs *)

\* GeneratorContext::new(naming)
NewContext(type_prefix, type_suffix) ==
    [type_prefix |-> type_prefix, type_suffix |-> type_suffix, custom_types |-> {}]

\* GeneratorContext::register_type
register_type(c, name) == [c EXCEPT !.custom_types = @ \cup {name}]

\* GeneratorContext::is_custom_type
is_custom_type(c, name) == name \in c.custom_types

\* GeneratorContext::format_type_name: format!("{}{}{}", prefix, name, suffix);
\* an empty prefix or suffix contributes no piece
format_type_name(c, name) ==
    SelectSeq(<<c.type_prefix, name, c.type_suffix>>, LAMBDA piece : piece # "")

\* type_mapper.rs primitive_to_typescript (the warning on stderr is left out)
primitive_to_typescript(name) ==
    LET known == known_primitive_to_typescript(name)
    IN IF known.some THEN <<known.val>> ELSE <<"unknown">>

\* a test for a union that looks at the head of the text only
ContainsBar_at_head(text) == text # <<>> /\ Head(text) = " | "

\* inner_ts.contains('|'): of the pieces, only the union separator holds a
\* bar (no identifier does)
ContainsBar(text) == " | " \in Range(text)

RECURSIVE JoinComma(_)
\* type_strs.join(", ")
JoinComma(texts) ==
    IF texts = <<>> THEN <<>>
    ELSE IF Len(texts) = 1 THEN texts[1]
    ELSE texts[1] \o <<", ">> \o JoinComma(Tail(texts))

\* a key test that lets every primitive through, bool too
use_param_key_any_primitive(key) == key.k \in {"Primitive", "Custom", "Generic"}

\* the `use_param_key` match of rust_to_typescript's HashMap arm
use_param_key(key) ==
    CASE key.k = "Primitive" /\ key.name = "bool" -> FALSE
      [] key.k = "Primitive" /\ key.name # "bool" -> TRUE
      [] key.k = "Custom" -> TRUE
      [] key.k = "Generic" -> TRUE
      [] OTHER -> FALSE

RECURSIVE rust_to_typescript(_, _)
\* type_mapper.rs rust_to_typescript
rust_to_typescript(rust_type, c) ==
    CASE rust_type.k = "Primitive" -> primitive_to_typescript(rust_type.name)
      [] rust_type.k = "Vec" ->
            LET inner_ts == rust_to_typescript(rust_type.args[1], c)
            IN IF ContainsBar(inner_ts)
               THEN <<"(">> \o inner_ts \o <<")", "[]">>
               ELSE inner_ts \o <<"[]">>
      [] rust_type.k = "Option" ->
            rust_to_typescript(rust_type.args[1], c) \o <<" | ", "null">>
      [] rust_type.k = "Result" -> rust_to_typescript(rust_type.args[1], c)
      [] rust_type.k = "HashMap" ->
            LET key_ts == rust_to_typescript(rust_type.args[1], c)
                value_ts == rust_to_typescript(rust_type.args[2], c)
            IN IF use_param_key(rust_type.args[1])
               THEN <<"Record<">> \o key_ts \o <<", ">> \o value_ts \o <<">">>
               ELSE <<"Record<", "string", ", ">> \o value_ts \o <<">">>
      [] rust_type.k = "Tuple" ->
            IF rust_type.args = <<>> THEN <<"void">>
            ELSE <<"[">>
                 \o JoinComma([i \in DOMAIN rust_type.args |->
                                 rust_to_typescript(rust_type.args[i], c)])
                 \o <<"]">>
      [] rust_type.k = "Custom" ->
            IF is_custom_type(c, rust_type.name)
            THEN format_type_name(c, rust_type.name)
            ELSE <<rust_type.name>>
      [] rust_type.k = "Generic" -> <<rust_type.name>>
      [] rust_type.k = "Unit" -> <<"void">>
      [] rust_type.k = "Unknown" -> <<"unknown">>

----------------------------------------------------------------------------
(* The reachability filter (pipeline.rs is not among the sources; the      *)
(* filter is modelled from section 4.5 of the specification). A TypeExpr   *)
(* is a RustType, Named(n) is Custom(n). The exported-type table is keyed  *)
(* by name.                                                                *)

\* absent return type of an entry point
NoReturn == [k |-> "None", name |-> "", args |-> <<>>]

EntryPoint(args, ret) == [args |-> args, ret |-> ret]

RECURSIVE Concat(_)
\* the concatenation of a sequence of sequences
Concat(ss) == IF ss = <<>> THEN <<>> ELSE Head(ss) \o Concat(Tail(ss))

\* a filter that looks at the head of a TypeExpr only, not inside a List,
\* an Optional or a Map
NamedIn_head(t) == IF t.k = "Custom" THEN <<t.name>> ELSE <<>>

RECURSIVE NamedIn(_)
\* "every Named(n) encountered" in a TypeExpr tree, left to right
NamedIn(t) ==
    IF t.k = "Custom" THEN <<t.name>>
    ELSE Concat([i \in DOMAIN t.args |-> NamedIn(t.args[i])])

\* "Starting set = the TypeExpr trees of every entry point's arguments and
\* return type"
StartingSet(eps) ==
    Concat([i \in DOMAIN eps |->
              eps[i].args \o (IF eps[i].ret = NoReturn THEN <<>> ELSE <<eps[i].ret>>)])

\* a filter that enqueues the fields of every exported name it encounters,
\* marked already or not
Visit_reenqueue(st, n) ==
    IF n \notin DOMAIN exported THEN st
    ELSE [reachable |-> IF n \in Range(st.reachable) THEN st.reachable
                        ELSE Append(st.reachable, n),
          queue |-> st.queue \o exported[n]]

\* "resolve n to its record if one exists, mark it reachable, and enqueue
\* the TypeExprs of its fields/variant payloads"; a name marked reachable
\* "is not re-enqueued"
Visit(st, n) ==
    IF n \notin DOMAIN exported \/ n \in Range(st.reachable) THEN st
    ELSE [reachable |-> Append(st.reachable, n),
          queue |-> st.queue \o exported[n]]

RECURSIVE VisitAll(_, _)
\* "for every Named(n) encountered"
VisitAll(st, names) ==
    IF names = <<>> THEN st
    ELSE VisitAll(Visit(st, Head(names)), Tail(names))

----------------------------------------------------------------------------
(* The type expressions of the model *)

MaxDepth == 3

Leaves ==
    { Primitive("String"), Primitive("i32"), Primitive("bool"),
      Primitive("Bytes"), Custom("User"), Custom("Status"), Generic("T"), Unit,
      Unknown("?") }

\* the values of maps and the elements of tuples, kept few
Scalars == { Primitive("String"), Custom("User") }

\* one more level of type constructors over the types of S
Wrap(S) ==
    S \cup {Vec(t) : t \in S} \cup {Option(t) : t \in S} \cup {Result(t) : t \in S}
      \cup {HashMap(key, value) : key \in S, value \in Scalars}
      \cup {Tuple(<<>>)} \cup {Tuple(<<a, b>>) : a \in Scalars, b \in S}

RECURSIVE TypesOfDepth(_)
TypesOfDepth(d) == IF d = 0 THEN Leaves ELSE Wrap(TypesOfDepth(d - 1))

RustTypes == TypesOfDepth(MaxDepth)

TypeNames == {"User", "Status"}
Namings == {NewContext("", ""), NewContext("I", "DTO")}

----------------------------------------------------------------------------
(* The files and references of the model *)

MaxParses == 3

LibRs == <<"src", "lib.rs">>
MainRs == <<"src", "main.rs">>
ARs == <<"src", "a.rs">>
BRs == <<"src", "b.rs">>
ACRs == <<"src", "a", "c.rs">>
ADRs == <<"src", "a", "d.rs">>

\* use crate::a::User;
UseCrateAUser == UseItem(UsePath("crate", UsePath("a", UseName("User"))))
\* use crate::b::User;
UseCrateBUser == UseItem(UsePath("crate", UsePath("b", UseName("User"))))
\* use crate::b::*;
UseCrateBGlob == UseItem(UsePath("crate", UsePath("b", UseGlob)))
\* use crate::{b::*, a::*};
UseCrateGroupBA ==
    UseItem(UsePath("crate", UseGroup(<<UsePath("b", UseGlob), UsePath("a", UseGlob)>>)))
\* use c::*;   (a re-export of a submodule, relative to the file's own module)
UseCGlob == UseItem(UsePath("c", UseGlob))

\* Files resolved by bare names. Two declarations of one name in a file are
\* what cfg-gated alternatives look like to syn:
\*   #[cfg(unix)] struct User;  #[cfg(not(unix))] struct User;
Paths == {ARs, BRs, ACRs, ADRs}
Contents ==
    { <<>>,
      <<StructItem("User")>>,
      <<StructItem("User"), StructItem("User")>>,
      <<UseCrateAUser, UseCrateBGlob, OtherItem>>,
      <<UseCGlob, UseCrateGroupBA>>,
      <<EnumItem("User"), UseCrateBUser>> }
TypePaths == { <<"User">>, <<"">>, <<"", "">> }

\* Files resolved by qualified paths. lib.rs and main.rs of a crate that is
\* both a library and a binary lie side by side in the source directory.
\* use crate::a;
UseCrateA == UseItem(UsePath("crate", UseName("a")))
\* use crate::a::c as a;
UseCrateACAsA == UseItem(UsePath("crate", UsePath("a", UseRename("c", "a"))))

PathFiles == {LibRs, MainRs, ARs, ACRs}
PathContents ==
    { <<>>,
      <<StructItem("User")>>,
      <<UseCrateA>>,
      <<UseCrateACAsA>> }
QualifiedPaths ==
    { <<"crate", "User">>,
      <<"crate", "a", "User">>,
      <<"a", "User">>,
      <<"a", "c", "User">>,
      <<"self", "c", "User">>,
      <<"super", "User">>,
      <<"super", "super", "User">>,
      <<"crate", "a", "super", "User">> }

\* Exported types and entry points of the reachability filter. D is
\* declared in no table; a field may name it all the same.
ExportedNames == {"A", "B", "C", "E"}
FieldLists ==
    { <<Primitive("i32")>>,
      <<Custom("B")>>,
      <<Option(Custom("C")), Primitive("String")>>,
      <<Vec(Custom("A"))>>,
      <<HashMap(Primitive("String"), Custom("B")), Custom("D")>> }
ExportedTables == UNION { [S -> FieldLists] : S \in SUBSET ExportedNames }
EntryPointLists ==
    { <<>>,
      <<EntryPoint(<<>>, Custom("A"))>>,
      <<EntryPoint(<<Primitive("i32")>>, NoReturn)>>,
      <<EntryPoint(<<Vec(Custom("B")), Generic("T")>>, NoReturn),
        EntryPoint(<<Primitive("i32")>>, Result(Option(Custom("C"))))>>,
      <<EntryPoint(<<Custom("C")>>, Tuple(<<Custom("D"), Custom("A")>>))>> }

\* The type expressions handed to the extractor, and the declarations they
\* are written in. A type parameter may bear any name, that of a well-known
\* type too: struct Entry<Value> { value: Value }.
MaxSynDepth == 1

SynIdents == {"T", "Value", "String", "i32", "User"}
SynLeaves == {TypePath(n, <<>>) : n \in SynIdents} \cup {TypeOther}
SynArgs == {TypePath("T", <<>>), TypePath("Value", <<>>)}

\* one more level of syntax over the types of S
SynWrap(S) ==
    S \cup {TypePath(c, <<t>>) : c \in {"Vec", "Option", "Result"}, t \in S}
      \cup {TypePath("HashMap", <<key, value>>) : key \in SynArgs, value \in S}
      \cup {TypeTuple(<<a, b>>) : a \in SynArgs, b \in S}
      \cup {TypeReference(t) : t \in S} \cup {TypeSlice(t) : t \in S}
      \cup {TypeTuple(<<>>), TypePath("Vec", <<>>), TypePath("Option", <<Lifetime>>),
             TypePath("HashMap", <<TypePath("T", <<>>)>>)}

RECURSIVE SynTypesOfDepth(_)
SynTypesOfDepth(d) == IF d = 0 THEN SynLeaves ELSE SynWrap(SynTypesOfDepth(d - 1))

SynTypes == SynTypesOfDepth(MaxSynDepth)

Declarations ==
    [kind : {"struct", "enum", "fn"}, generics : {{}, {"T"}, {"Value"}, {"T", "Value"}}]

----------------------------------------------------------------------------
(* The state machine *)

NoQuery == [type_path |-> <<>>, from_file |-> <<>>]
NoResult == [tag |-> "None", files |-> <<>>]
NoType == [k |-> "None", name |-> "", args |-> <<>>]
NoPrev == [query |-> NoQuery, result |-> NoResult, self |-> NewResolver]

\* the parts of the program that a specification leaves unused
ResolverIdle ==
    /\ files = NewResolver.files
    /\ type_definitions = NewResolver.type_definitions
    /\ module_to_file = NewResolver.module_to_file
    /\ parsed = <<>>
    /\ query = NoQuery
    /\ result = NoResult
    /\ prev = NoPrev
MapperIdle ==
    /\ ctx = NewContext("", "")
    /\ ty = NoType
    /\ ts = <<>>
ReachIdle ==
    /\ exported = EmptyMap
    /\ entry_points = <<>>
    /\ queue = <<>>
    /\ reachable = <<>>
NoDeclaration == [kind |-> "none", generics |-> {}]
NoSynType == [s |-> "None", ident |-> "", args |-> <<>>]
ExtractIdle ==
    /\ enclosing = NoDeclaration
    /\ syn_ty = NoSynType
ParserIdle ==
    /\ syntax = <<>>
    /\ expanded = FALSE
    /\ structs = <<>>
    /\ enums = <<>>
    /\ types_parsed = FALSE
CommandIdle ==
    /\ commands = <<>>
    /\ commands_parsed = FALSE

Self ==
    [files |-> files, type_definitions |-> type_definitions,
     module_to_file |-> module_to_file]

Init ==
    /\ files = NewResolver.files
    /\ type_definitions = NewResolver.type_definitions
    /\ module_to_file = NewResolver.module_to_file
    /\ parsed = <<>>
    /\ query = NoQuery
    /\ result = NoResult
    /\ prev = NoPrev
    /\ ctx = NewContext("", "")
    /\ ty = NoType
    /\ ts = <<>>
    /\ ReachIdle
    /\ ExtractIdle
    /\ ParserIdle
    /\ CommandIdle

\* One parse_file call. The caller hands over each scanned path once
\* (scanner.rs lists every file of the source directory once).
ParseFile(path, content) ==
    /\ Len(parsed) < MaxParses
    /\ path \notin DOMAIN files
    /\ LET r == parse_file(Self, path, content, BasePath)
       IN /\ files' = r.files
          /\ type_definitions' = r.type_definitions
          /\ module_to_file' = r.module_to_file
    /\ parsed' = Append(parsed, <<path, content>>)
    /\ query' = NoQuery
    /\ result' = NoResult
    /\ prev' = NoPrev
    /\ UNCHANGED besideResolver

\* One resolve_type call; the tables are read only (&self)
ResolveType(type_path, from_file) ==
    /\ query' = [type_path |-> type_path, from_file |-> from_file]
    /\ result' = resolve_type(Self, type_path, from_file)
    /\ prev' = NoPrev
    /\ UNCHANGED <<files, type_definitions, module_to_file, parsed, besideResolver>>

\* a memoising resolver: a reference found from a file is recorded among that
\* file's imports
ResolveAgain_memoising ==
    /\ query # NoQuery
    /\ LET r == resolve_type(Self, query.type_path, query.from_file)
           name == Last(query.type_path)
           f == query.from_file
       IN /\ result' = r
          /\ files' = IF r.tag = "Found" /\ f \in DOMAIN files
                      THEN [files EXCEPT ![f].imports =
                              MapInsert(@, name, <<"crate", "cache", name>>)]
                      ELSE files
    /\ prev' = [query |-> query, result |-> result, self |-> Self]
    /\ UNCHANGED <<type_definitions, module_to_file, parsed, query, besideResolver>>

\* The caller makes the resolve_type call it has just made once more, with
\* no parse_file call in between
ResolveAgain ==
    /\ query # NoQuery
    /\ result' = resolve_type(Self, query.type_path, query.from_file)
    /\ prev' = [query |-> query, result |-> result, self |-> Self]
    /\ UNCHANGED <<files, type_definitions, module_to_file, parsed, query, besideResolver>>

Next ==
    \/ \E path \in Paths, content \in Contents : ParseFile(path, content)
    \/ \E type_path \in TypePaths, from_file \in Paths : ResolveType(type_path, from_file)

Spec == Init /\ [][Next]_vars

\* The same resolver, with calls repeated
NextAgain ==
    \/ Next
    \/ ResolveAgain

SpecAgain == Init /\ [][NextAgain]_vars

\* The type mapper: a context is built, types are registered, and one type
\* expression is mapped
InitMap ==
    /\ files = NewResolver.files
    /\ type_definitions = NewResolver.type_definitions
    /\ module_to_file = NewResolver.module_to_file
    /\ parsed = <<>>
    /\ query = NoQuery
    /\ result = NoResult
    /\ prev = NoPrev
    /\ ctx \in Namings
    /\ ty \in RustTypes
    /\ ts = <<>>
    /\ ReachIdle
    /\ ExtractIdle
    /\ ParserIdle
    /\ CommandIdle

\* ctx.register_type(name), while the context is being set up
RegisterType(name) ==
    /\ ts = <<>>
    /\ ctx' = register_type(ctx, name)
    /\ UNCHANGED <<besideMapper, ty, ts>>

\* rust_to_typescript(&ty, &ctx)
MapType ==
    /\ ty # NoType
    /\ ts = <<>>
    /\ ts' = rust_to_typescript(ty, ctx)
    /\ UNCHANGED <<besideMapper, ctx, ty>>

NextMap ==
    \/ \E name \in TypeNames : RegisterType(name)
    \/ MapType

SpecMap == InitMap /\ [][NextMap]_vars

\* The reachability filter: the queue starts as the starting set of the
\* entry points, and one TypeExpr is taken from it at a time
InitReach ==
    /\ ResolverIdle
    /\ MapperIdle
    /\ exported \in ExportedTables
    /\ entry_points \in EntryPointLists
    /\ queue = StartingSet(entry_points)
    /\ reachable = <<>>
    /\ ExtractIdle
    /\ ParserIdle
    /\ CommandIdle

FilterStep ==
    /\ queue # <<>>
    /\ LET st == VisitAll([reachable |-> reachable, queue |-> Tail(queue)],
                          NamedIn(Head(queue)))
       IN /\ reachable' = st.reachable
          /\ queue' = st.queue
    /\ UNCHANGED <<besideReach, exported, entry_points>>

NextReach == FilterStep

SpecReach == InitReach /\ [][NextReach]_vars

\* the filter is a loop of the single-threaded run: it goes on while the
\* queue holds something
SpecReachFair == SpecReach /\ WF_vars(FilterStep)

\* The type extractor and the type mapper in a row: the type of a field of
\* a struct or of a variant of an enum, or of an argument or the return of
\* an entry point, is parsed and then mapped
InitExtract ==
    /\ ResolverIdle
    /\ ReachIdle
    /\ ctx \in Namings
    /\ ty = NoType
    /\ ts = <<>>
    /\ enclosing \in Declarations
    /\ syn_ty \in SynTypes
    /\ ParserIdle
    /\ CommandIdle

\* parse_struct and parse_enum: parse_type_with_context(&field.ty, &generic_params)
ParseFieldType ==
    /\ enclosing.kind \in {"struct", "enum"}
    /\ ty = NoType
    /\ ty' = parse_type_with_context(syn_ty, enclosing.generics)
    /\ UNCHANGED <<besideExtract, ctx, ts, enclosing, syn_ty>>

\* parse_function: parse_type(&pat_type.ty), parse_type(ty)
ParseSignatureType ==
    /\ enclosing.kind = "fn"
    /\ ty = NoType
    /\ ty' = parse_type(syn_ty)
    /\ UNCHANGED <<besideExtract, ctx, ts, enclosing, syn_ty>>

NextExtract ==
    \/ ParseFieldType
    \/ ParseSignatureType
    \/ \E name \in TypeNames : RegisterType(name)
    \/ MapType

SpecExtract == InitExtract /\ [][NextExtract]_vars

\* The type parser. The names of fields and variants and the values of
\* rename are sequences of characters
field_a == <<"f", "i", "e", "l", "d", "_", "a">>
user_name == <<"u", "s", "e", "r", "_", "n", "a", "m", "e">>
FieldA == <<"F", "i", "e", "l", "d", "A">>
HttpError == <<"H", "t", "t", "p", "E", "r", "r", "o", "r">>
id == <<"i", "d">>

derive(paths) == Attribute(<<"derive">>, paths)
serde(metas) == Attribute(<<"serde">>, metas)

\* the attributes of a struct or of an enum
ContainerAttrs ==
    { <<>>,
      <<derive(<< <<"Debug">>, <<"Serialize">> >>)>>,
      <<derive(<< <<"serde", "Deserialize">> >>)>>,
      <<derive(<< <<"Debug">>, <<"Clone">> >>)>>,
      <<derive(<< <<"Serialize">> >>), serde(<<MetaNameValue("rename_all", "camelCase")>>)>>,
      <<serde(<<MetaNameValue("rename_all", "snake_case")>>)>>,
      <<Attribute(<<"cfg_attr">>, <<MetaPath("test"), MetaList("derive")>>)>> }

\* the fields of a struct
StructFields ==
    { FieldsNamed(<<Field(id, TypePath("i32", <<>>), <<>>),
                    Field(user_name, TypePath("T", <<>>), <<>>)>>),
      FieldsNamed(<<Field(user_name, TypePath("String", <<>>),
                          <<serde(<<MetaNameValue("rename", id)>>)>>),
                    Field(field_a, TypePath("i32", <<>>), <<>>)>>),
      FieldsNamed(<<Field(field_a, TypePath("i32", <<>>), <<serde(<<MetaPath("skip")>>)>>)>>),
      FieldsNamed(<<Field(field_a, TypePath("i32", <<>>), <<serde(<<MetaList("rename")>>)>>)>>),
      FieldsNamed(<<Field(field_a, TypePath("i32", <<>>), <<PlainAttribute(<<"doc">>)>>)>>),
      FieldsUnnamed(<<Field(<<>>, TypePath("f64", <<>>),
                            <<serde(<<MetaNameValue("rename", id)>>)>>)>>),
      FieldsUnnamed(<<Field(<<>>, TypePath("f64", <<>>), <<>>),
                      Field(<<>>, TypePath("T", <<>>), <<>>)>>),
      FieldsUnit }

\* the variants of an enum
EnumVariants ==
    { <<Variant(FieldA, <<>>, FieldsUnit), Variant(HttpError, <<>>, FieldsUnit)>>,
      <<Variant(FieldA, <<serde(<<MetaNameValue("rename", id)>>)>>, FieldsUnit),
        Variant(HttpError, <<>>, FieldsUnit)>>,
      <<Variant(field_a, <<>>, FieldsUnit)>>,
      <<Variant(FieldA, <<>>,
                FieldsUnnamed(<<Field(<<>>, TypePath("String", <<>>),
                                      <<serde(<<MetaPath("skip")>>)>>)>>))>>,
      <<Variant(HttpError, <<>>,
                FieldsNamed(<<Field(field_a, TypePath("i32", <<>>), <<>>),
                              Field(user_name, TypePath("String", <<>>),
                                    <<serde(<<MetaNameValue("rename", id)>>)>>)>>))>>,
      <<Variant(HttpError, <<>>,
                FieldsNamed(<<Field(field_a, TypePath("i32", <<>>), <<>>)>>))>> }

\* the struct or the enum of a file
TypeItems ==
    { ItemStruct("User", <<"T">>, attrs, fields) :
        attrs \in ContainerAttrs, fields \in StructFields }
    \cup
    { ItemEnum("Status", <<>>, attrs, variants) :
        attrs \in ContainerAttrs, variants \in EnumVariants }

\* what else a file holds beside the declaration of the type called name
Companions(name) ==
    { <<>>,
      <<ItemImpl(Some(<<"Serialize">>), TypePath(name, <<>>))>>,
      <<ItemConst(TRUE, <<ItemOther,
                          ItemImpl(Some(<<"_serde", "Serialize">>), TypePath(name, <<>>))>>)>>,
      <<ItemMod(Some(<<ItemImpl(Some(<<"serde", "Deserialize">>), TypePath(name, <<>>))>>))>>,
      <<ItemMod(Some(<<ItemConst(TRUE,
            <<ItemImpl(Some(<<"_serde", "Deserialize">>), TypePath(name, <<>>))>>)>>))>>,
      <<ItemImpl(Some(<<"Display">>), TypePath(name, <<>>))>>,
      <<ItemImpl(None, TypePath(name, <<>>))>>,
      <<ItemImpl(Some(<<"Serialize">>), TypePath("Other", <<>>))>>,
      <<ItemImpl(Some(<<"Serialize">>), TypeReference(TypePath(name, <<>>)))>>,
      <<ItemConst(FALSE, <<>>), ItemMod(None), ItemOther>>,
      <<ItemEnum("Kind", <<>>, <<>>,
                 <<Variant(FieldA, <<serde(<<MetaNameValue("rename", id)>>)>>, FieldsUnit)>>)>> }

\* how deep in inline modules the declaration is
MaxModDepth == 2

RECURSIVE Nested(_, _)
\* items inside depth inline modules
Nested(items, depth) ==
    IF depth = 0 THEN items ELSE <<ItemMod(Some(Nested(items, depth - 1)))>>

\* the items syn::parse_file gives for the files of the universe
SourceFiles ==
    UNION { { Nested(<<item>>, depth) \o rest :
                depth \in 0..MaxModDepth, rest \in Companions(item.ident) }
            \cup
            { rest \o <<ItemOther>> \o Nested(<<item>>, 1) :
                rest \in Companions(item.ident) }
            : item \in TypeItems }

TypesFile == <<"src", "types.rs">>

InitTypes ==
    /\ ResolverIdle
    /\ MapperIdle
    /\ ReachIdle
    /\ ExtractIdle
    /\ syntax \in SourceFiles
    /\ expanded = FALSE
    /\ structs = <<>>
    /\ enums = <<>>
    /\ types_parsed = FALSE
    /\ CommandIdle

\* parse_types(content, source_file), syntax being syn::parse_file(content)
ParseTypes ==
    /\ ~types_parsed
    /\ LET out == parse_types(syntax, TypesFile)
       IN /\ structs' = out.structs
          /\ enums' = out.enums
    /\ expanded' = FALSE
    /\ types_parsed' = TRUE
    /\ UNCHANGED <<besideParser, syntax>>

\* parse_types_expanded(content, source_file)
ParseTypesExpanded ==
    /\ ~types_parsed
    /\ LET out == parse_types_expanded(syntax, TypesFile)
       IN /\ structs' = out.structs
          /\ enums' = out.enums
    /\ expanded' = TRUE
    /\ types_parsed' = TRUE
    /\ UNCHANGED <<besideParser, syntax>>

NextTypes ==
    \/ ParseTypes
    \/ ParseTypesExpanded

SpecTypes == InitTypes /\ [][NextTypes]_vars

\* The type parser on enums under a rename_all rule. The names of the
\* variants are the identifiers of up to MaxNameLen characters over a
\* lowercase letter, an uppercase letter and the underscore, and three
\* longer ones
MaxNameLen == 3

NameChars == {"a", "B", "_"}

VariantNames ==
    (UNION { [1..n -> NameChars] : n \in 1..MaxNameLen } \ { <<"_">> })
    \cup {field_a, FieldA, HttpError}

RenameRules ==
    { "lowercase", "UPPERCASE", "camelCase", "snake_case", "SCREAMING_SNAKE_CASE",
      "kebab-case", "SCREAMING-KEBAB-CASE", "PascalCase" }

\* #[derive(Serialize)] #[serde(rename_all = rule)] enum ident { name }
RenamedEnum(ident, rule, name) ==
    ItemEnum(ident, <<>>,
             <<derive(<< <<"Serialize">> >>), serde(<<MetaNameValue("rename_all", rule)>>)>>,
             <<Variant(name, <<>>, FieldsUnit)>>)

RenameFiles ==
    { <<RenamedEnum("Status", rule, name)>> : rule \in RenameRules, name \in VariantNames }
    \cup
    { <<RenamedEnum("Status", "camelCase", field_a),
        RenamedEnum("Kind", "SCREAMING-KEBAB-CASE", FieldA)>> }

InitRename ==
    /\ ResolverIdle
    /\ MapperIdle
    /\ ReachIdle
    /\ ExtractIdle
    /\ syntax \in RenameFiles
    /\ expanded = FALSE
    /\ structs = <<>>
    /\ enums = <<>>
    /\ types_parsed = FALSE
    /\ CommandIdle

SpecRename == InitRename /\ [][NextTypes]_vars

\* The type parser on enums whose container attributes say how the enum
\* is tagged
TagMetas ==
    << MetaPath("untagged"), MetaNameValue("tag", "type"), MetaNameValue("tag", "kind"),
       MetaNameValue("content", "data"), MetaNameValueOther("tag"),
       MetaNameValue("rename_all", "snake_case") >>

MaxMetas == 3

\* the choices of up to MaxMetas different metas, in every order
MetaChoices ==
    UNION { { choice \in [1..n -> DOMAIN TagMetas] :
                \A i, j \in 1..n : i # j => choice[i] # choice[j] } : n \in 0..MaxMetas }

\* the metas in one #[serde(...)], or each in a #[serde(...)] of its own
SerdeAttrLists(choice) ==
    << <<serde([i \in DOMAIN choice |-> TagMetas[choice[i]]])>>,
       [i \in DOMAIN choice |-> serde(<<TagMetas[choice[i]]>>)] >>

TaggedEnum(attrs) ==
    ItemEnum("Status", <<>>, <<derive(<< <<"Serialize">> >>)>> \o attrs,
             <<Variant(FieldA, <<>>, FieldsUnit),
               Variant(HttpError, <<>>,
                       FieldsUnnamed(<<Field(<<>>, TypePath("String", <<>>), <<>>)>>))>>)

InitTagged ==
    /\ ResolverIdle
    /\ MapperIdle
    /\ ReachIdle
    /\ ExtractIdle
    /\ \E choice \in MetaChoices, layout \in 1..2 :
          syntax = <<TaggedEnum(SerdeAttrLists(choice)[layout])>>
    /\ expanded = FALSE
    /\ structs = <<>>
    /\ enums = <<>>
    /\ types_parsed = FALSE
    /\ CommandIdle

SpecTagged == InitTagged /\ [][NextTypes]_vars

\* The command parser. The attributes a function may bear
rename_all_snake == <<MetaNameValue("rename_all", "snake_case")>>

FnAttrs ==
    { <<>>,
      <<PlainAttribute(<<"tauri", "command">>)>>,
      <<PlainAttribute(<<"command">>)>>,
      <<Attribute(<<"tauri", "command">>, rename_all_snake)>>,
      <<Attribute(<<"command">>, <<MetaPath("async")>>)>>,
      <<PlainAttribute(<<"doc">>), PlainAttribute(<<"command">>)>>,
      <<PlainAttribute(<<"other", "command">>)>>,
      <<PlainAttribute(<<"test">>)>> }

\* where a function stands in the file: at top level, in an impl block, in
\* an inline module, in a module of a module, in an impl block of a module
Places == {"top", "impl", "mod", "mod mod", "mod impl"}

Placed(place, attrs, sig) ==
    CASE place = "top" -> ItemFn(attrs, sig)
      [] place = "impl" ->
            ItemImplOf(TypePath("Service", <<>>), <<ImplItemOther, ImplItemFn(attrs, sig)>>)
      [] place = "mod" -> ItemMod(Some(<<ItemOther, ItemFn(attrs, sig)>>))
      [] place = "mod mod" -> ItemMod(Some(<<ItemMod(Some(<<ItemFn(attrs, sig)>>))>>))
      [] place = "mod impl" ->
            ItemMod(Some(<<ItemImplOf(TypePath("Service", <<>>),
                                      <<ImplItemFn(attrs, sig)>>)>>))

PlainSignature(ident) ==
    Signature(ident, <<FnArgTyped(PatIdent("id"), TypePath("i32", <<>>))>>, ReturnDefault)

\* two functions, first and second, each somewhere with some attributes
MarkerFiles ==
    { <<Placed(place1, attrs1, PlainSignature("first")), ItemOther,
        Placed(place2, attrs2, PlainSignature("second"))>>
      : place1 \in Places, attrs1 \in FnAttrs, place2 \in Places, attrs2 \in FnAttrs }

\* the parameters a command may declare
Params ==
    << FnArgReceiver,
       FnArgTyped(PatIdent("id"), TypePath("i32", <<>>)),
       FnArgTyped(PatIdent("user"), TypePath("User", <<>>)),
       FnArgTyped(PatIdent("state"), TypePath("State", <<Lifetime, TypePath("Db", <<>>)>>)),
       FnArgTyped(PatIdent("window"), TypePath("Window", <<>>)),
       FnArgTyped(PatIdent("app"), TypePath("AppHandle", <<>>)),
       FnArgTyped(PatIdent("webview"), TypePath("Webview", <<>>)),
       FnArgTyped(PatIdent("main"), TypePath("WebviewWindow", <<>>)),
       FnArgTyped(PatIdent("handle"), TypeReference(TypePath("AppHandle", <<>>))),
       FnArgTyped(PatOther, TypePath("Point", <<>>)) >>

MaxArgs == 2

ParamLists ==
    UNION { { [i \in 1..n |-> Params[choice[i]]] : choice \in [1..n -> DOMAIN Params] }
            : n \in 0..MaxArgs }

\* one command, at top level or a method, with some parameters
ArgFiles ==
    { <<Placed(place, <<PlainAttribute(<<"tauri", "command">>)>>,
               Signature("run", inputs, ReturnDefault))>>
      : place \in {"top", "impl"}, inputs \in ParamLists }

\* the return types a command may declare
ReturnTypes ==
    SynTypes \cup { TypeReference(TypeTuple(<<>>)),
                    TypePath("Result", <<TypeTuple(<<>>), TypePath("String", <<>>)>>) }

ReturnFiles ==
    { <<Placed(place, <<PlainAttribute(<<"command">>)>>, Signature("run", <<>>, output))>>
      : place \in {"top", "mod"},
        output \in {ReturnDefault} \cup {ReturnType(t) : t \in ReturnTypes} }

CommandsFile == <<"src", "commands.rs">>

InitCommands ==
    /\ ResolverIdle
    /\ MapperIdle
    /\ ReachIdle
    /\ ExtractIdle
    /\ syntax \in MarkerFiles \cup ArgFiles \cup ReturnFiles
    /\ expanded = FALSE
    /\ structs = <<>>
    /\ enums = <<>>
    /\ types_parsed = FALSE
    /\ commands = <<>>
    /\ commands_parsed = FALSE

\* parse_commands(content, source_file), syntax being syn::parse_file(content)
ParseCommands ==
    /\ ~commands_parsed
    /\ commands' = parse_commands(syntax, CommandsFile)
    /\ commands_parsed' = TRUE
    /\ UNCHANGED <<besideCommands, parserVars>>

NextCommands == ParseCommands

SpecCommands == InitCommands /\ [][NextCommands]_vars

\* The same resolver, asked for qualified paths
NextPath ==
    \/ \E path \in PathFiles, content \in PathContents : ParseFile(path, content)
    \/ \E type_path \in QualifiedPaths, from_file \in PathFiles :
          ResolveType(type_path, from_file)

SpecPath == Init /\ [][NextPath]_vars

\* The same resolver, on files that import User by each kind of path
\* use super::User;
UseSuperUser == UseItem(UsePath("super", UseName("User")))
\* use self::c::User;
UseSelfCUser == UseItem(UsePath("self", UsePath("c", UseName("User"))))
\* use c::User;
UseCUser == UseItem(UsePath("c", UseName("User")))
\* use crate::a::c::User;
UseCrateACUser ==
    UseItem(UsePath("crate", UsePath("a", UsePath("c", UseName("User")))))

\* use crate::a::User as Account;
UseCrateAUserAsAccount ==
    UseItem(UsePath("crate", UsePath("a", UseRename("User", "Account"))))

ImportFiles == {ARs, BRs, ACRs}
ImportContents ==
    { <<StructItem("User")>>,
      <<UseCrateAUser>>,
      <<UseCrateACUser, OtherItem>>,
      <<UseSuperUser>>,
      <<UseSelfCUser>>,
      <<UseCUser>>,
      <<UseCrateAUserAsAccount>> }
ImportQueries ==
    { <<"User">>, <<"Account">>, <<"crate", "a", "User">>, <<"super", "User">>,
      <<"c", "User">> }

NextImport ==
    \/ \E path \in ImportFiles, content \in ImportContents : ParseFile(path, content)
    \/ \E type_path \in ImportQueries, from_file \in ImportFiles :
          ResolveType(type_path, from_file)

SpecImport == Init /\ [][NextImport]_vars

\* A parse_file call for a path the resolver has ingested before (parse_file
\* is public and takes any path; nothing in it looks for an earlier call)
ParseFileAgain(path, content) ==
    /\ Len(parsed) < MaxParses
    /\ path \in DOMAIN files
    /\ LET r == parse_file(Self, path, content, BasePath)
       IN /\ files' = r.files
          /\ type_definitions' = r.type_definitions
          /\ module_to_file' = r.module_to_file
    /\ parsed' = Append(parsed, <<path, content>>)
    /\ query' = NoQuery
    /\ result' = NoResult
    /\ prev' = NoPrev
    /\ UNCHANGED besideResolver

\* Files that declare one type each, ingested any number of times
IngestContents == { <<>>, <<StructItem("User")>>, <<EnumItem("Kind")>> }

NextIngest ==
    \/ \E path \in Paths, content \in IngestContents : ParseFile(path, content)
    \/ \E path \in Paths, content \in IngestContents : ParseFileAgain(path, content)
    \/ \E type_path \in {<<"User">>, <<"Kind">>}, from_file \in Paths :
          ResolveType(type_path, from_file)

SpecIngest == Init /\ [][NextIngest]_vars

----------------------------------------------------------------------------
(* Vocabulary of the claims, stated over the tables and not over the       *)
(* resolution operators                                                    *)

Asked == query # NoQuery
Segments == split_segments(query.type_path)
FromIngested == query.from_file \in DOMAIN files
FromScope == files[query.from_file]

\* a resolve_type call for a bare name from an ingested file has returned
BareAsked == Asked /\ FromIngested /\ Len(Segments) = 1
BareName == Segments[1]

Declares(f, n) == f \in DOMAIN files /\ n \in DOMAIN files[f].local_types

\* the files whose scope declares n
DeclaringFiles(n) == {f \in DOMAIN files : Declares(f, n)}

\* the direct lookup of an absolute path p in the module-path -> file table
TableLookup(p) ==
    IF /\ Len(p) >= 2
       /\ Front(p) \in DOMAIN module_to_file
       /\ Declares(module_to_file[Front(p)], Last(p))
    THEN Found(module_to_file[Front(p)])
    ELSE NotFound

\* the positions of F's wildcard imports whose module's file declares n
WildcardHits(n) ==
    {i \in DOMAIN FromScope.wildcard_imports :
        LET w == FromScope.wildcard_imports[i]
        IN w \in DOMAIN module_to_file /\ Declares(module_to_file[w], n)}

IsLocal == BareName \in DOMAIN FromScope.local_types
IsImported == BareName \in DOMAIN FromScope.imports

\* step 4 applies: not local, not imported, not found through a wildcard
FallbackCase == BareAsked /\ ~IsLocal /\ ~IsImported /\ WildcardHits(BareName) = {}

SiblingModules(m1, m2) == Len(m1) = Len(m2) /\ Front(m1) = Front(m2)

\* the declaring files of n that are siblings of the asking file
SiblingDeclarers(n) ==
    {f \in DeclaringFiles(n) :
        SiblingModules(files[f].module_path, FromScope.module_path)}

----------------------------------------------------------------------------
(* C1 *)

\* C1: every resolve_type call, for every reference string (the empty one and
\* those made of `::` only included) and every from-file, returns Found,
\* NotFound or Ambiguous and never aborts.
C1_ResolveTypeNeverAborts ==
    Asked => result.tag \in {"Found", "NotFound", "Ambiguous"}

----------------------------------------------------------------------------
(* C3 *)

\* C3: a bare name resolves in strict priority: a local declaration gives
\* Found(F) whatever F imports; otherwise an explicit import gives exactly the
\* table lookup of its recorded path, with no fall-through; otherwise a
\* wildcard-imported module that declares the name gives Found of its file;
\* only when none of these applies does the whole-program table decide.
C3_BareNamePriority ==
    BareAsked =>
        IF IsLocal THEN result = Found(query.from_file)
        ELSE IF IsImported THEN result = TableLookup(FromScope.imports[BareName])
        ELSE IF WildcardHits(BareName) # {}
             THEN \E i \in WildcardHits(BareName) :
                     result = Found(module_to_file[FromScope.wildcard_imports[i]])
        ELSE IF BareName \notin DOMAIN type_definitions THEN result = NotFound
        ELSE \/ result.tag = "Found"
                /\ result.files[1] \in Range(type_definitions[BareName])
             \/ result = Ambiguous(type_definitions[BareName])

\* C3 witness: the import of the asked name leads nowhere while a wildcard
\* import of F and the whole-program table both know the name, and the call
\* has returned NotFound.
C3_Witness ==
    /\ BareAsked /\ ~IsLocal /\ IsImported
    /\ TableLookup(FromScope.imports[BareName]) = NotFound
    /\ WildcardHits(BareName) # {}
    /\ BareName \in DOMAIN type_definitions
    /\ result = NotFound

----------------------------------------------------------------------------
(* C4 *)

\* C4: in the whole-program fallback, zero declaring files give NotFound,
\* exactly one gives Found of it, several give Found(s) when exactly one of
\* them, s, is a sibling of F and otherwise Ambiguous with all of them.
C4_WholeProgramFallback ==
    FallbackCase =>
        LET D == DeclaringFiles(BareName)
            S == SiblingDeclarers(BareName)
        IN IF D = {} THEN result = NotFound
           ELSE IF Cardinality(D) = 1 THEN \E f \in D : result = Found(f)
           ELSE IF Cardinality(S) = 1 THEN \E f \in S : result = Found(f)
           ELSE result.tag = "Ambiguous" /\ Range(result.files) = D

----------------------------------------------------------------------------
(* C5 *)

\* C5: with exactly two files declaring User, a file that neither declares
\* nor imports it gets Ambiguous listing those two files, unless it is a
\* sibling of just one of them, and then it gets Found of that sibling.
C5_TwoDeclarers ==
    (FallbackCase /\ BareName = "User" /\ Cardinality(DeclaringFiles("User")) = 2) =>
        IF Cardinality(SiblingDeclarers("User")) = 1
        THEN \E f \in SiblingDeclarers("User") : result = Found(f)
        ELSE /\ result.tag = "Ambiguous"
             /\ Len(result.files) = 2
             /\ Range(result.files) = DeclaringFiles("User")

----------------------------------------------------------------------------
(* C6 *)

\* the files that declare n and whose module is a submodule that file mf,
\* of module path mod, imports by wildcard (`use c::*` or `use crate::..::*`)
ReexportedFrom(mod, mf, n) ==
    {g \in DeclaringFiles(n) :
        \E i \in DOMAIN files[mf].wildcard_imports :
            LET w == files[mf].wildcard_imports[i]
            IN /\ files[g].module_path \in {mod \o w, w}
               /\ Front(files[g].module_path) = mod}

\* C6: a name that F imports explicitly from a module whose file does not
\* declare it but re-exports, by wildcard, a submodule whose file does, is
\* resolved to that defining file.
C6_ReexportResolved ==
    (BareAsked /\ ~IsLocal /\ IsImported) =>
        LET p == FromScope.imports[BareName]
        IN (/\ Len(p) >= 2
            /\ Front(p) \in DOMAIN module_to_file
            /\ ~Declares(module_to_file[Front(p)], Last(p))
            /\ ReexportedFrom(Front(p), module_to_file[Front(p)], Last(p)) # {})
           => \E g \in ReexportedFrom(Front(p), module_to_file[Front(p)], Last(p)) :
                 result = Found(g)

----------------------------------------------------------------------------
(* C10 *)

\* the least element of a non-empty set of positions
MinOf(S) == CHOOSE i \in S : \A j \in S : i <= j

----------------------------------------------------------------------------
(* C7 *)

\* a resolve_type call for a path of two or more segments from an ingested
\* file has returned
PathAsked == Asked /\ FromIngested /\ Len(Segments) >= 2
HeadIsAlias == Segments[1] \in DOMAIN FromScope.imports

\* one step of the walk: `super` pops (and fails at the crate root), `self`
\* stays, any other segment is appended
WalkStep(at, seg) ==
    IF seg = "super" THEN (IF at = <<"crate">> THEN None ELSE Some(Front(at)))
    ELSE IF seg = "self" THEN Some(at)
    ELSE Some(at \o <<seg>>)

RECURSIVE WalkedAfter(_, _, _)
\* where the walk over segs stands after its first k segments, from start
WalkedAfter(segs, start, k) ==
    IF k = 0 THEN Some(start)
    ELSE LET before == WalkedAfter(segs, start, k - 1)
         IN IF before.some THEN WalkStep(before.val, segs[k]) ELSE None

\* the walk of the asked path: from the crate root over the segments after
\* `crate`, or from F's module path over all the segments
Walked ==
    IF Segments[1] = "crate"
    THEN WalkedAfter(Tail(Segments), <<"crate">>, Len(Segments) - 1)
    ELSE WalkedAfter(Segments, FromScope.module_path, Len(Segments))

\* C7: a qualified path whose head is no import alias is walked from the
\* crate root or from F's module path; a `super` at the crate root gives
\* NotFound, and otherwise the result is Found(file) exactly when the walked
\* prefix is a key of the module table whose file declares the last segment.
C7_QualifiedPathWalk ==
    (PathAsked /\ ~HeadIsAlias) =>
        IF Walked.some THEN result = TableLookup(Walked.val) ELSE result = NotFound

\* C7 witness: a `super` was applied at the crate root and the call has
\* returned NotFound, although the crate root's file declares the name.
C7_Witness ==
    /\ PathAsked /\ ~HeadIsAlias
    /\ ~Walked.some
    /\ TableLookup(<<"crate", Last(Segments)>>).tag = "Found"
    /\ result = NotFound

----------------------------------------------------------------------------
(* C9 *)

\* C9: when the head segment is an import alias of F, the path resolves as
\* the alias's recorded path followed by the remaining segments, looked up in
\* the module table; the alias is checked before any relative walk.
C9_AliasSplice ==
    (PathAsked /\ HeadIsAlias) =>
        result = TableLookup(FromScope.imports[Segments[1]] \o Tail(Segments))

\* C9 witness: the alias leads to one file and the relative walk of the same
\* segments would lead to another, and the call has returned the alias's.
C9_Witness ==
    /\ PathAsked /\ HeadIsAlias
    /\ result.tag = "Found"
    /\ Walked.some
    /\ TableLookup(Walked.val).tag = "Found"
    /\ TableLookup(Walked.val) # result

----------------------------------------------------------------------------
(* C8 *)

RECURSIVE Rebuild(_)
\* the resolver that the parse_file calls of log build, made in log's order
Rebuild(log) ==
    IF log = <<>> THEN NewResolver
    ELSE parse_file(Rebuild(Front(log)), Last(log)[1], Last(log)[2], BasePath)

Reordered(log, perm) == [i \in DOMAIN log |-> log[perm[i]]]

SameOutcome(r1, r2) == r1.tag = r2.tag /\ Range(r1.files) = Range(r2.files)

\* C8: what a resolve_type call returns does not depend on the order in
\* which the (distinct) files were ingested: under every other order of the
\* same parse_file calls the same query has the same outcome and file(s).
C8_IngestionOrderIrrelevant ==
    Asked =>
        \A perm \in Permutations(DOMAIN parsed) :
            SameOutcome(result,
                        resolve_type(Rebuild(Reordered(parsed, perm)),
                                     query.type_path, query.from_file))

----------------------------------------------------------------------------
(* C11 *)

Repeated == prev # NoPrev

----------------------------------------------------------------------------
(* C12 *)

FilterDone == queue = <<>> /\ entry_points # <<>>

RECURSIVE Mentions(_, _)
\* the TypeExpr t names n somewhere in its tree
Mentions(t, n) ==
    \/ t.k = "Custom" /\ t.name = n
    \/ \E i \in DOMAIN t.args : Mentions(t.args[i], n)

\* an argument or the return type of an entry point names n
EntryMentions(n) ==
    \E i \in DOMAIN entry_points :
        \/ \E j \in DOMAIN entry_points[i].args : Mentions(entry_points[i].args[j], n)
        \/ entry_points[i].ret # NoReturn /\ Mentions(entry_points[i].ret, n)

\* a field or payload of the exported type m names n
FieldMentions(m, n) == \E j \in DOMAIN exported[m] : Mentions(exported[m][j], n)

RECURSIVE Closure(_)
\* the least set of exported names that holds S and, with a name, every
\* exported name its fields mention
Closure(S) ==
    LET more == {n \in DOMAIN exported : \E m \in S : FieldMentions(m, n)}
    IN IF more \subseteq S THEN S ELSE Closure(S \cup more)

ReachableFromEntryPoints == Closure({n \in DOMAIN exported : EntryMentions(n)})

NoDuplicates(seq) == \A i, j \in DOMAIN seq : seq[i] = seq[j] => i = j

\* C12: when the filter has emptied its queue, the emitted table lists
\* exactly the exported types in the closure of the entry points' argument
\* and return types under "a field or payload names": an exported type
\* outside the closure is absent, every type inside it, at whatever depth,
\* is present, and none is listed twice.
C12_ExactlyReachable ==
    FilterDone =>
        /\ Range(reachable) = ReachableFromEntryPoints
        /\ NoDuplicates(reachable)

\* the entry points name A alone, A has a field of type B and B one of
\* type C: the three are emitted, and the exported type E, which nothing
\* names, is not
C12_Witness ==
    /\ FilterDone
    /\ reachable = <<"A", "B", "C">>
    /\ ~EntryMentions("B") /\ ~EntryMentions("C")
    /\ ~FieldMentions("A", "C")
    /\ "E" \in DOMAIN exported

----------------------------------------------------------------------------
(* C13 *)

\* C13: the filter terminates on every table of exported types and every
\* list of entry points: the queue becomes empty, and no name is ever
\* marked reachable twice (its fields are enqueued when it is marked, and
\* only then).
C13_FilterTerminates ==
    /\ [](NoDuplicates(reachable))
    /\ <>(queue = <<>>)

\* the filter has ended on a table where A refers to itself and B and C
\* refer to each other
C13_Witness ==
    /\ FilterDone
    /\ {"A", "B", "C"} \subseteq Range(reachable)
    /\ FieldMentions("A", "A")
    /\ FieldMentions("B", "C")
    /\ FieldMentions("C", "B")

----------------------------------------------------------------------------
(* C2 *)

Mapped == ts # <<>>

\* how often piece occurs in text
RECURSIVE Occurrences(_, _)
Occurrences(text, piece) ==
    IF text = <<>> THEN 0
    ELSE (IF Head(text) = piece THEN 1 ELSE 0) + Occurrences(Tail(text), piece)

\* C2: the target type of Optional(Optional(T)) is the single nullable union
\* `map(T) | null`: the null sentinel is appended once, not twice.
C2_NestedOptionSingleNull ==
    (Mapped /\ ty.k = "Option" /\ ty.args[1].k = "Option") =>
        LET inner == rust_to_typescript(ty.args[1].args[1], ctx)
        IN /\ ts = inner \o <<" | ", "null">>
           /\ Occurrences(ts, "null") = Occurrences(inner, "null") + 1

----------------------------------------------------------------------------
(* C14 *)

\* the text holds a union separator somewhere
HasUnionSeparator(text) == \E i \in DOMAIN text : text[i] = " | "

\* the List whose mapping the call returns: the type itself, or the payload
\* of a Fallible
ListMapped ==
    IF ty.k = "Vec" THEN ty
    ELSE IF ty.k = "Result" /\ ty.args[1].k = "Vec" THEN ty.args[1]
    ELSE NoType

\* C14: the mapping of List(T), bare or as the payload of a Fallible, is
\* `(map(T))[]` when map(T) holds a union separator and `map(T)[]` when it
\* holds none; List(Optional(Named("User"))) maps to `(User | null)[]`.
C14_ListParenthesised ==
    (Mapped /\ ListMapped # NoType) =>
        LET elem == rust_to_typescript(ListMapped.args[1], ctx)
        IN /\ HasUnionSeparator(elem) => ts = <<"(">> \o elem \o <<")", "[]">>
           /\ ~HasUnionSeparator(elem) => ts = elem \o <<"[]">>
           /\ (ListMapped = Vec(Option(Custom("User"))) /\ ctx.custom_types = {}) =>
                  ts = <<"(", "User", " | ", "null", ")", "[]">>

\* Result<Vec<Option<User>>, E> has been mapped to (User | null)[]
C14_Witness ==
    /\ Mapped
    /\ ty = Result(Vec(Option(Custom("User"))))
    /\ ts = <<"(", "User", " | ", "null", ")", "[]">>

----------------------------------------------------------------------------
(* C15 *)

MapMapped == Mapped /\ ty.k = "HashMap"
KeyType == ty.args[1]
ValueType == ty.args[2]

RecordOf(key_ts, value_ts) == <<"Record<">> \o key_ts \o <<", ">> \o value_ts \o <<">">>

\* C15 as stated: a Map is keyed by string when its key type is bool or a
\* list, an option, a map or a tuple, and by the mapped key type in every
\* other case.
C15_MapKeyWidening ==
    MapMapped =>
        LET widened == \/ KeyType = Primitive("bool")
                       \/ KeyType.k \in {"Vec", "Option", "HashMap", "Tuple"}
            value_ts == rust_to_typescript(ValueType, ctx)
        IN ts = IF widened THEN RecordOf(<<"string">>, value_ts)
                ELSE RecordOf(rust_to_typescript(KeyType, ctx), value_ts)

\* C15 as amended: a Map is keyed by the mapped key type when its key type
\* is a primitive other than bool, a named type or a generic parameter, and
\* by string in every other case: bool, list, option, map and tuple, and
\* also Fallible, Unit and Unrecognized. Map{bool, V} gives Record<string, V>,
\* Map{String, V} gives Record<string, V>, Map{Named("Status"), V} gives
\* Record<Status, V> (Status not decorated).
C15_MapKeyWideningAmended ==
    MapMapped =>
        LET kept == \/ KeyType.k = "Primitive" /\ KeyType.name # "bool"
                    \/ KeyType.k \in {"Custom", "Generic"}
            value_ts == rust_to_typescript(ValueType, ctx)
        IN /\ ts = IF kept THEN RecordOf(rust_to_typescript(KeyType, ctx), value_ts)
                   ELSE RecordOf(<<"string">>, value_ts)
           /\ KeyType \in {Primitive("bool"), Primitive("String")} =>
                  ts = RecordOf(<<"string">>, value_ts)
           /\ (KeyType = Custom("Status") /\ "Status" \notin ctx.custom_types) =>
                  ts = RecordOf(<<"Status">>, value_ts)

\* HashMap<bool, String> has been mapped to Record<string, string>
C15_Witness ==
    /\ MapMapped
    /\ KeyType = Primitive("bool")
    /\ ValueType = Primitive("String")
    /\ ts = <<"Record<", "string", ", ", "string", ">">>

----------------------------------------------------------------------------
(* C16 *)

Parsed == syn_ty # NoSynType /\ ty # NoType

\* the type expression is a bare name
BareIdent == syn_ty.s = "Path" /\ syn_ty.args = <<>>

\* the name is one of the fixed primitive/well-known table
IsTableName(n) == known_primitive_to_typescript(n).some
TableText(n) == <<known_primitive_to_typescript(n).val>>

\* the type parameters of the enclosing struct or enum; an entry point has
\* no generic context
DeclaredParams ==
    IF enclosing.kind \in {"struct", "enum"} THEN enclosing.generics ELSE {}

\* C16 as stated: the target type of a type expression that is a name of the
\* fixed table is the table's entry for that name, whatever the enclosing
\* declaration's type parameters and whatever types are registered.
C16_PrimitivePurity ==
    (Parsed /\ Mapped /\ BareIdent /\ IsTableName(syn_ty.ident)) =>
        ts = TableText(syn_ty.ident)

\* C16 as amended: the target type of a type expression that is a name of
\* the fixed table and not a type parameter declared by the enclosing struct
\* or enum is the table's entry for that name, whatever the other type
\* parameters and whatever types are registered; a table name that the
\* enclosing declaration declares as a type parameter is that type variable.
C16_PrimitivePurityAmended ==
    (Parsed /\ Mapped /\ BareIdent /\ IsTableName(syn_ty.ident)) =>
        ts = IF syn_ty.ident \in DeclaredParams
             THEN <<syn_ty.ident>>
             ELSE TableText(syn_ty.ident)

\* `Value` in a struct with the type parameter T, with User and Status
\* registered, has been mapped to `unknown`
C16_Witness ==
    /\ Parsed /\ Mapped
    /\ syn_ty = TypePath("Value", <<>>)
    /\ enclosing = [kind |-> "struct", generics |-> {"T"}]
    /\ ctx.custom_types = {"User", "Status"}
    /\ ts = <<"unknown">>

----------------------------------------------------------------------------
(* C17 *)

RECURSIVE GenericsIn(_)
\* the names classified as generic parameters in a RustType
GenericsIn(t) ==
    IF t.k = "Generic" THEN {t.name}
    ELSE UNION {GenericsIn(t.args[i]) : i \in DOMAIN t.args}

\* the names that some declaration of the model declares as a type parameter
ParamNames == UNION {d.generics : d \in Declarations}

\* C17 as stated: every name classified as a generic parameter is a type
\* parameter declared by the enclosing struct or enum (none in an entry
\* point's signature), and a name that some declaration uses as a type
\* parameter is, where it is not declared, a named type reference.
C17_GenericOnlyWhenDeclared ==
    Parsed =>
        /\ GenericsIn(ty) \subseteq DeclaredParams
        /\ (BareIdent /\ syn_ty.ident \in ParamNames /\ syn_ty.ident \notin DeclaredParams) =>
              ty = Custom(syn_ty.ident)

\* C17 as amended: every name classified as a generic parameter is a type
\* parameter declared by the enclosing struct or enum (none in an entry
\* point's signature), and a name that some declaration uses as a type
\* parameter is, where it is not declared, classified as if no declaration
\* used it: as the primitive when it is a name of the fixed table, and as a
\* named type reference otherwise.
C17_GenericOnlyWhenDeclaredAmended ==
    Parsed =>
        /\ GenericsIn(ty) \subseteq DeclaredParams
        /\ (BareIdent /\ syn_ty.ident \in ParamNames /\ syn_ty.ident \notin DeclaredParams) =>
              ty = IF IsTableName(syn_ty.ident)
                   THEN Primitive(syn_ty.ident)
                   ELSE Custom(syn_ty.ident)

\* Vec<T> in the signature of fn f<T> has been parsed to Vec(Custom("T"))
C17_Witness ==
    /\ Parsed
    /\ enclosing = [kind |-> "fn", generics |-> {"T"}]
    /\ syn_ty = TypePath("Vec", <<TypePath("T", <<>>)>>)
    /\ ty = Vec(Custom("T"))

----------------------------------------------------------------------------
(* What the type parser exports *)

TypesParsed == types_parsed

RECURSIVE DeclaredIn(_)
\* the structs and the enums of a file, at any depth of inline modules
DeclaredIn(items) ==
    UNION { CASE items[i].item \in {"Struct", "Enum"} -> {items[i]}
              [] items[i].item = "Mod" ->
                    IF items[i].content.some THEN DeclaredIn(items[i].content.val) ELSE {}
              [] OTHER -> {}
            : i \in DOMAIN items }

\* the declaration is among the exported structs or the exported enums
Exported(decl) ==
    IF decl.item = "Struct"
    THEN \E i \in DOMAIN structs : structs[i].name = decl.ident
    ELSE \E i \in DOMAIN enums : enums[i].name = decl.ident

RECURSIVE ImplBlocks(_)
\* the implementation blocks of a file: at top level, in inline modules and
\* inside const-initializer blocks
ImplBlocks(items) ==
    UNION { CASE items[i].item = "Impl" -> {items[i]}
              [] items[i].item = "Mod" ->
                    IF items[i].content.some THEN ImplBlocks(items[i].content.val) ELSE {}
              [] items[i].item = "Const" ->
                    {items[i].stmts[j] : j \in {k \in DOMAIN items[i].stmts :
                                                    items[i].stmts[k].item = "Impl"}}
              [] OTHER -> {}
            : i \in DOMAIN items }

\* some block of the file implements Serialize or Deserialize for the name
HasSerdeImplementation(name) ==
    \E block \in ImplBlocks(syntax) :
        /\ block.trait_.some
        /\ block.trait_.val # <<>>
        /\ block.trait_.val[Len(block.trait_.val)] \in {"Serialize", "Deserialize"}
        /\ block.self_ty.s = "Path"
        /\ block.self_ty.ident = name

CarriesSerde(attrs) == \E i \in DOMAIN attrs : attrs[i].path = <<"serde">>

\* a field of the struct, named or positional, a variant of the enum, or a
\* field of a variant carries a serde attribute
MemberCarriesSerde(decl) ==
    IF decl.item = "Struct"
    THEN \E i \in DOMAIN decl.fields.fields : CarriesSerde(decl.fields.fields[i].attrs)
    ELSE \E v \in DOMAIN decl.variants :
            \/ CarriesSerde(decl.variants[v].attrs)
            \/ \E i \in DOMAIN decl.variants[v].fields.fields :
                   CarriesSerde(decl.variants[v].fields.fields[i].attrs)

\* C18: in expanded mode a struct or an enum is exported if and only if its
\* name has a Serialize or Deserialize implementation block in the file (at
\* top level, in an inline module or inside a const-initializer block) or
\* one of its fields or variants, named or positional, carries a serde
\* attribute; nothing else makes it exported
C18_ExpandedExport ==
    (TypesParsed /\ expanded) =>
        \A decl \in DeclaredIn(syntax) :
            Exported(decl) <=> (HasSerdeImplementation(decl.ident) \/ MemberCarriesSerde(decl))

\* the attributes hold a derive that lists Serialize or Deserialize, by its
\* short name or as the last segment of a qualified path
DerivesSerdeTrait(attrs) ==
    \E i \in DOMAIN attrs :
        /\ attrs[i].list
        /\ attrs[i].path = <<"derive">>
        /\ \E j \in DOMAIN attrs[i].args :
               /\ attrs[i].args[j] # <<>>
               /\ attrs[i].args[j][Len(attrs[i].args[j])] \in {"Serialize", "Deserialize"}

\* C19: in direct mode a struct or an enum, at any depth of inline modules,
\* is exported if and only if it carries a derive attribute that lists
\* Serialize or Deserialize, by short name or as the last segment of a
\* qualified path; serde attributes on its fields or variants alone do not
\* make it exported
C19_DirectExport ==
    (TypesParsed /\ ~expanded) =>
        \A decl \in DeclaredIn(syntax) : Exported(decl) <=> DerivesSerdeTrait(decl.attrs)

\* A file parsed in direct mode in which a declaration two inline modules
\* deep that derives serde::Deserialize is exported, and an enum whose
\* variant carries a serde attribute, with no derive, is not
C19_Witness ==
    /\ TypesParsed
    /\ ~expanded
    /\ \E decl \in DeclaredIn(syntax) :
          /\ syntax[1] = Nested(<<decl>>, 2)[1]
          /\ decl.attrs = <<derive(<< <<"serde", "Deserialize">> >>)>>
          /\ Exported(decl)
    /\ \E decl \in DeclaredIn(syntax) :
          /\ MemberCarriesSerde(decl)
          /\ ~DerivesSerdeTrait(decl.attrs)
          /\ ~Exported(decl)

----------------------------------------------------------------------------
(* The wire names of fields and variants *)

\* the literals the serde attributes of a member give for name
SerdeLiterals(attrs, name) ==
    UNION { { attrs[i].args[j].val :
                j \in { h \in DOMAIN attrs[i].args :
                          /\ attrs[i].args[h].m = "NameValue"
                          /\ attrs[i].args[h].name = name
                          /\ attrs[i].args[h].str } } :
            i \in { g \in DOMAIN attrs :
                      attrs[g].list /\ attrs[g].path = <<"serde">> } }

HasRename(attrs) == SerdeLiterals(attrs, "rename") # {}
Rename(attrs) == CHOOSE literal \in SerdeLiterals(attrs, "rename") : TRUE

\* the exported record of a declaration
RecordOfDecl(decl) ==
    IF decl.item = "Struct"
    THEN CHOOSE r \in Range(structs) : r.name = decl.ident
    ELSE CHOOSE r \in Range(enums) : r.name = decl.ident

\* a named field has its rename when it has one and its declared name
\* otherwise, whatever the container says
FieldNamed(field, record) ==
    record.name = IF HasRename(field.attrs) THEN Rename(field.attrs) ELSE field.ident

\* a variant has its rename when it has one; otherwise the name the
\* container's rename_all rule makes of its declared name, and its declared
\* name when the container has no rule
VariantNamed(variant, container, record) ==
    record.name =
        IF HasRename(variant.attrs) THEN Rename(variant.attrs)
        ELSE IF SerdeLiterals(container, "rename_all") # {}
             THEN apply_rename_all(variant.ident,
                      Some(CHOOSE rule \in SerdeLiterals(container, "rename_all") : TRUE)).val
             ELSE variant.ident

\* the variants of an exported enum and the fields of its struct-like variants
VariantsNamed(decl) ==
    \A v \in DOMAIN decl.variants :
        /\ VariantNamed(decl.variants[v], decl.attrs, RecordOfDecl(decl).variants[v])
        /\ decl.variants[v].fields.style = "Named" =>
              \A i \in DOMAIN decl.variants[v].fields.fields :
                  FieldNamed(decl.variants[v].fields.fields[i],
                             RecordOfDecl(decl).variants[v].data.fields[i])

\* C20, as the specification words it: the wire name of a field or of a
\* variant is its rename when it has one, whatever the container rule;
\* otherwise rename_all is applied to the names of variants only, and the
\* fields of structs and of struct-like variants keep their declared name
C20_WireName ==
    TypesParsed =>
        \A decl \in {d \in DeclaredIn(syntax) : Exported(d)} :
            IF decl.item = "Struct"
            THEN \A i \in DOMAIN decl.fields.fields :
                    LET field == decl.fields.fields[i]
                    IN (field.ident # <<>> \/ HasRename(field.attrs)) =>
                           FieldNamed(field, RecordOfDecl(decl).fields[i])
            ELSE VariantsNamed(decl)

\* C20, amended: the same of variants and of the fields that have a name;
\* the i-th positional field of a tuple struct is called field{i}, counted
\* from 0, whatever attributes it carries
C20_WireNameAmended ==
    TypesParsed =>
        \A decl \in {d \in DeclaredIn(syntax) : Exported(d)} :
            IF decl.item = "Struct"
            THEN \A i \in DOMAIN decl.fields.fields :
                    LET field == decl.fields.fields[i]
                    IN IF decl.fields.style = "Named"
                       THEN FieldNamed(field, RecordOfDecl(decl).fields[i])
                       ELSE RecordOfDecl(decl).fields[i].name
                                = <<"f", "i", "e", "l", "d">> \o decimal(i - 1)
            ELSE VariantsNamed(decl)

\* An exported enum under rename_all = "camelCase": its variant HttpError
\* is called httpError; of the fields of that variant, field_a keeps its
\* name and user_name, renamed, is called id
C20_Witness ==
    /\ TypesParsed
    /\ \E decl \in DeclaredIn(syntax) :
          /\ decl.item = "Enum"
          /\ SerdeLiterals(decl.attrs, "rename_all") = {"camelCase"}
          /\ Exported(decl)
          /\ decl.variants[1].ident = HttpError
          /\ RecordOfDecl(decl).variants[1].name
                = <<"h", "t", "t", "p", "E", "r", "r", "o", "r">>
          /\ Len(decl.variants[1].fields.fields) = 2
          /\ decl.variants[1].fields.fields[1].ident = field_a
          /\ decl.variants[1].fields.fields[2].ident = user_name
          /\ RecordOfDecl(decl).variants[1].data.fields[1].name = field_a
          /\ RecordOfDecl(decl).variants[1].data.fields[2].name = id

----------------------------------------------------------------------------
(* The rename_all conversions *)

Uppercase(c) == c \in Range(UpperLetters)
Lower(c) == IF Uppercase(c) THEN LowerLetters[IndexIn(UpperLetters, c)] ELSE c
Upper(c) == IF c \in Range(LowerLetters) THEN UpperLetters[IndexIn(LowerLetters, c)] ELSE c

\* the canonical split: a word begins at every uppercase letter that is not
\* the first character of the name
Boundary(name, i) == i > 1 /\ Uppercase(name[i])

\* the words of the split, each character turned by case, joined by sep
Joined(name, sep, case(_)) ==
    Concat([i \in DOMAIN name |->
              (IF Boundary(name, i) THEN sep ELSE <<>>) \o <<case(name[i])>>])

Hyphened(name) == [i \in DOMAIN name |-> IF name[i] = "_" THEN "-" ELSE name[i]]

\* camel case made from the words of the canonical split: the first word
\* starts with a lowercase letter, every later word starts with the
\* uppercase letter that made the boundary
CamelOfSplit(name) == [i \in DOMAIN name |-> IF i = 1 THEN Lower(name[i]) ELSE name[i]]

\* what each of the seven rules gives when it is derived from the
\* canonical split alone
SplitDerived(rule, name) ==
    CASE rule = "lowercase" -> Joined(name, <<>>, Lower)
      [] rule = "UPPERCASE" -> Joined(name, <<>>, Upper)
      [] rule = "camelCase" -> CamelOfSplit(name)
      [] rule = "snake_case" -> Joined(name, <<"_">>, Lower)
      [] rule = "SCREAMING_SNAKE_CASE" -> Joined(name, <<"_">>, Upper)
      [] rule = "kebab-case" -> Joined(name, <<"-">>, Lower)
      [] rule = "SCREAMING-KEBAB-CASE" -> Joined(name, <<"-">>, Upper)

\* camel case as a walk over the underscores: the underscores go, a
\* character that follows an underscore is made uppercase, the first of the
\* other characters is made lowercase, the rest stay
CamelOfUnderscores(name) ==
    LET kept == SelectSeq([i \in DOMAIN name |-> i], LAMBDA i : name[i] # "_")
        follows(i) == i > 1 /\ name[i - 1] = "_"
        plain == {i \in Range(kept) : ~follows(i)}
    IN [k \in DOMAIN kept |->
          IF follows(kept[k]) THEN Upper(name[kept[k]])
          ELSE IF kept[k] = MinOf(plain) THEN Lower(name[kept[k]])
          ELSE name[kept[k]]]

\* what each of the seven rules gives: the four snake and kebab rules
\* split before every uppercase letter but the first, and the kebab rules
\* turn the underscores of the name into hyphens as well
Converted(rule, name) ==
    CASE rule = "lowercase" -> [i \in DOMAIN name |-> Lower(name[i])]
      [] rule = "UPPERCASE" -> [i \in DOMAIN name |-> Upper(name[i])]
      [] rule = "camelCase" -> CamelOfUnderscores(name)
      [] rule = "snake_case" -> Joined(name, <<"_">>, Lower)
      [] rule = "SCREAMING_SNAKE_CASE" -> Joined(name, <<"_">>, Upper)
      [] rule = "kebab-case" -> Hyphened(Joined(name, <<"_">>, Lower))
      [] rule = "SCREAMING-KEBAB-CASE" -> Hyphened(Joined(name, <<"_">>, Upper))

SevenRules == RenameRules \ {"PascalCase"}

\* the rule of the i-th enum of the file, the declared name of its variant
\* and the name the variant is exported under
RenameRule(i) == CHOOSE rule \in SerdeLiterals(syntax[i].attrs, "rename_all") : TRUE
Declared(i) == syntax[i].variants[1].ident
WireName(i) == enums[i].variants[1].name

field_A == <<"f", "i", "e", "l", "d", "A">>
FIELD_A_kebab == <<"F", "I", "E", "L", "D", "-", "A">>

\* the two conversions the specification gives as examples
ExamplesHold ==
    \A i \in DOMAIN enums :
        /\ (RenameRule(i) = "camelCase" /\ Declared(i) = field_a) => WireName(i) = field_A
        /\ (RenameRule(i) = "SCREAMING-KEBAB-CASE" /\ Declared(i) = FieldA)
               => WireName(i) = FIELD_A_kebab

\* C21, as the specification words it: each of the seven rename_all
\* conversions is derived from the canonical split that puts a word
\* boundary before every uppercase letter not at position zero, camelCase
\* makes fieldA of field_a and SCREAMING-KEBAB-CASE makes FIELD-A of FieldA
C21_RenameAll ==
    TypesParsed =>
        /\ \A i \in DOMAIN enums :
              RenameRule(i) \in SevenRules =>
                  WireName(i) = SplitDerived(RenameRule(i), Declared(i))
        /\ ExamplesHold

\* C21, amended: snake_case and SCREAMING_SNAKE_CASE put an underscore
\* before every uppercase letter not at position zero and turn the case;
\* kebab-case and SCREAMING-KEBAB-CASE are these with every underscore, the
\* ones of the name included, turned into a hyphen; lowercase and UPPERCASE
\* turn the case and nothing else; camelCase drops the underscores, makes
\* the character after an underscore uppercase and the first of the other
\* characters lowercase. The two examples hold
C21_RenameAllAmended ==
    TypesParsed =>
        /\ \A i \in DOMAIN enums :
              RenameRule(i) \in SevenRules =>
                  WireName(i) = Converted(RenameRule(i), Declared(i))
        /\ ExamplesHold

\* The file of the two examples, parsed: field_a under camelCase is fieldA
\* and FieldA under SCREAMING-KEBAB-CASE is FIELD-A
C21_Witness ==
    /\ TypesParsed
    /\ Len(enums) = 2
    /\ RenameRule(1) = "camelCase" /\ Declared(1) = field_a /\ WireName(1) = field_A
    /\ RenameRule(2) = "SCREAMING-KEBAB-CASE" /\ Declared(2) = FieldA
    /\ WireName(2) = FIELD_A_kebab

----------------------------------------------------------------------------
(* The wire shape of an enum *)

\* the container says untagged
UntaggedFlag(attrs) ==
    \E i \in DOMAIN attrs :
        /\ attrs[i].list
        /\ attrs[i].path = <<"serde">>
        /\ \E j \in DOMAIN attrs[i].args :
              attrs[i].args[j].m = "Path" /\ attrs[i].args[j].name = "untagged"

TagPresent(attrs) == SerdeLiterals(attrs, "tag") # {}
ContentPresent(attrs) == SerdeLiterals(attrs, "content") # {}

\* the shape the container attributes ask for
WireShape(attrs) ==
    IF UntaggedFlag(attrs) THEN "Untagged"
    ELSE IF TagPresent(attrs) /\ ContentPresent(attrs) THEN "Adjacent"
    ELSE IF TagPresent(attrs) THEN "Internal"
    ELSE "External"

\* C22: the wire shape of an enum is a function of its container
\* attributes: untagged gives Untagged, also when tag or content is
\* present; otherwise tag with content gives AdjacentlyTagged, tag alone
\* InternallyTagged, and neither, content without tag included,
\* ExternallyTagged. The tag and the content of the shape are among those
\* the attributes give
C22_EnumWireShape ==
    TypesParsed =>
        \A i \in DOMAIN enums :
            LET shape == enums[i].representation
                attrs == syntax[i].attrs
            IN /\ shape.repr = WireShape(attrs)
               /\ shape.repr \in {"Internal", "Adjacent"} =>
                      shape.tag \in SerdeLiterals(attrs, "tag")
               /\ shape.repr = "Adjacent" => shape.content \in SerdeLiterals(attrs, "content")

\* An enum with untagged, tag and content together is Untagged; this is
\* asked of a file where tag and content come before the flag
C22_Witness ==
    /\ TypesParsed
    /\ Len(enums) = 1
    /\ syntax[1].attrs = <<derive(<< <<"Serialize">> >>),
                           serde(<<MetaNameValue("tag", "type"),
                                   MetaNameValue("content", "data"),
                                   MetaPath("untagged")>>)>>
    /\ enums[1].representation.repr = "Untagged"

----------------------------------------------------------------------------
(* What the command parser records *)

CommandsParsed == commands_parsed

\* the functions of a file that are top-level free functions, methods of a
\* top-level impl block or functions directly inside a top-level inline
\* module, in source order
CoveredFunctions(items) ==
    Concat([i \in DOMAIN items |->
        CASE items[i].item = "Fn" -> <<items[i]>>
          [] items[i].item = "Impl" ->
                SelectSeq(items[i].items, LAMBDA m : m.impl_item = "Fn")
          [] items[i].item = "Mod" ->
                IF items[i].content.some
                THEN SelectSeq(items[i].content.val, LAMBDA m : m.item = "Fn")
                ELSE <<>>
          [] OTHER -> <<>>])

RECURSIVE AllFunctions(_)
\* every function of a file, wherever it stands
AllFunctions(items) ==
    UNION { CASE items[i].item = "Fn" -> {items[i]}
              [] items[i].item = "Impl" ->
                    {items[i].items[j] : j \in {k \in DOMAIN items[i].items :
                                                   items[i].items[k].impl_item = "Fn"}}
              [] items[i].item = "Mod" ->
                    IF items[i].content.some THEN AllFunctions(items[i].content.val) ELSE {}
              [] OTHER -> {}
            : i \in DOMAIN items }

\* the function bears #[tauri::command] or #[command], in whatever form
\* the attribute is written
BearsMarker(func) ==
    \E i \in DOMAIN func.attrs :
        func.attrs[i].path = <<"tauri", "command">> \/ func.attrs[i].path = <<"command">>

RecordedNames == [i \in DOMAIN commands |-> commands[i].name]

\* C23: the command parser gives, in source order, one record for every
\* function bearing the marker attribute (tauri::command or command, in
\* any attribute form) that is a top-level free function, a method of a
\* top-level impl block or a function directly inside a top-level inline
\* module, and no record for a function without the marker
C23_MarkedFunctionsRecorded ==
    CommandsParsed =>
        LET marked == SelectSeq(CoveredFunctions(syntax), BearsMarker)
            expected == [i \in DOMAIN marked |-> marked[i].sig.ident]
        IN /\ SelectSeq(RecordedNames, LAMBDA n : n \in Range(expected)) = expected
           /\ \A func \in AllFunctions(syntax) :
                  ~BearsMarker(func) => func.sig.ident \notin Range(RecordedNames)

\* the framework-injected handle types
HandleTypes == {"State", "Window", "AppHandle", "Webview", "WebviewWindow"}

\* the declared type of the parameter is a handle type
OfHandleType(arg) == arg.ty.s = "Path" /\ arg.ty.ident \in HandleTypes

\* the declared parameters of a function without the receiver and without
\* the parameters of a handle type, in declaration order
CallerSupplied(func) ==
    SelectSeq(func.sig.inputs, LAMBDA arg : arg.arg = "Typed" /\ ~OfHandleType(arg))

\* the record made of func
RecordOfFunction(func) == CHOOSE c \in Range(commands) : c.name = func.sig.ident

\* C24: the argument list of an entry-point record is exactly the declared
\* parameter list, in declaration order, without the receiver and without
\* every parameter whose declared type is a handle type (State, Window,
\* AppHandle, Webview, WebviewWindow); no record contains an argument of a
\* handle type
C24_ArgumentsRecorded ==
    CommandsParsed =>
        \A func \in {f \in AllFunctions(syntax) : f.sig.ident \in Range(RecordedNames)} :
            LET args == RecordOfFunction(func).args
                declared == CallerSupplied(func)
            IN /\ Len(args) = Len(declared)
               /\ \A i \in DOMAIN args :
                     /\ i \in DOMAIN declared
                     /\ declared[i].pat.pat = "Ident" => args[i].name = declared[i].pat.ident
                     /\ args[i].ty = parse_type(declared[i].ty)
               /\ \A i \in DOMAIN args :
                     ~(args[i].ty.k = "Custom" /\ args[i].ty.name \in HandleTypes)

\* the function declares the empty tuple as its return type
ReturnsEmptyTuple(func) ==
    /\ func.sig.output.ret = "Type"
    /\ func.sig.output.ty = TypeTuple(<<>>)

RECURSIVE Referent(_)
\* the type a chain of references leads to
Referent(t) == IF t.s = "Reference" THEN Referent(t.args[1]) ELSE t

\* the function declares the empty tuple, or a reference to it
ReturnsEmptyTupleByReference(func) ==
    /\ func.sig.output.ret = "Type"
    /\ Referent(func.sig.output.ty) = TypeTuple(<<>>)

Recorded == {f \in AllFunctions(syntax) : f.sig.ident \in Range(RecordedNames)}

\* C25, as the specification words it: the return type of a record is
\* absent if and only if the function declares no return type or declares
\* the empty tuple; every other declared return type is recorded
C25_ReturnRecorded ==
    CommandsParsed =>
        \A func \in Recorded :
            LET return_type == RecordOfFunction(func).return_type
            IN /\ ~return_type.some <=>
                     (func.sig.output.ret = "Default" \/ ReturnsEmptyTuple(func))
               /\ return_type.some => return_type.val = parse_type(func.sig.output.ty)

\* C25, amended: the return type is absent if and only if the function
\* declares no return type, the empty tuple, or a reference to the empty
\* tuple; every other declared return type is recorded, a Result whose
\* success payload is the unit included
C25_ReturnRecordedAmended ==
    CommandsParsed =>
        \A func \in Recorded :
            LET return_type == RecordOfFunction(func).return_type
            IN /\ ~return_type.some <=>
                     (func.sig.output.ret = "Default" \/ ReturnsEmptyTupleByReference(func))
               /\ return_type.some => return_type.val = parse_type(func.sig.output.ty)

\* A command declared `-> Result<(), String>`: its record has the return
\* type Result of the unit
C25_Witness ==
    /\ CommandsParsed
    /\ \E func \in Recorded :
          /\ func.sig.output =
                ReturnType(TypePath("Result", <<TypeTuple(<<>>), TypePath("String", <<>>)>>))
          /\ RecordOfFunction(func).return_type = Some(Result(Unit))

----------------------------------------------------------------------------
(* Imports and the paths they name *)

\* the imports `use P::T` of an ingested file, as the pairs <<T, P::T>>;
\* an import renamed with `as` is not among them
PlainImports(file) ==
    { <<name, files[file].imports[name]>> :
        name \in { n \in DOMAIN files[file].imports : Last(files[file].imports[n]) = n } }

\* C26: an explicit import resolves like the path it names: for every file
\* F and every import `use P::T` of F, the bare name T resolved from F
\* gives what the qualified reference P::T resolved from F gives, whether
\* P starts with crate, self, super or a module of F's own module
C26_ImportResolvesLikeItsPath ==
    \A file \in DOMAIN files :
        \A import \in PlainImports(file) :
            resolve_type(Self, <<import[1]>>, file) = resolve_type(Self, import[2], file)

----------------------------------------------------------------------------
(* Module paths of the ingested files *)

\* C27: after ingesting distinct files under one base path every ingested
\* file stays addressable by its own module path: module_to_file maps the
\* module path of each file's scope back to that file, so no two files
\* share a module path and hide one another
C27_FilesAddressable ==
    \A file \in DOMAIN files :
        /\ files[file].module_path \in DOMAIN module_to_file
        /\ module_to_file[files[file].module_path] = file

----------------------------------------------------------------------------
(* The defining files of a type name *)

DeclaredNames == UNION { DOMAIN files[file].local_types : file \in DOMAIN files }

\* C28: after any sequence of parse_file calls the list of defining files
\* of a type name holds each file at most once and only files whose current
\* scope declares the name; hence a name declared in exactly one file
\* resolves, from a file that neither declares nor imports it, to Found of
\* that file, also after the file has been ingested again
C28_DefiningFiles ==
    /\ \A name \in DOMAIN type_definitions :
          /\ NoDuplicates(type_definitions[name])
          /\ Range(type_definitions[name]) \subseteq DeclaringFiles(name)
    /\ \A name \in DeclaredNames :
          \A file \in DeclaringFiles(name) :
              DeclaringFiles(name) = {file} =>
                  \A from_file \in DOMAIN files \ {file} :
                      resolve_type(Self, <<name>>, from_file) = Found(file)

----------------------------------------------------------------------------
(* The keys of the indexed-record types *)

\* the position of the first separator after position i of the mapped text
FirstSeparatorAfter(i) ==
    CHOOSE j \in (i + 1)..Len(ts) :
        /\ ts[j] = ", "
        /\ \A h \in (i + 1)..(j - 1) : ts[h] # ", "

\* the key of the indexed-record type that opens at position i
KeyAt(i) == SubSeq(ts, i + 1, FirstSeparatorAfter(i) - 1)

\* string, number, the name of a named type (decorated when the type is
\* registered), or a type variable
ValidIndexKeys ==
    {<<"string">>, <<"number">>, <<"T">>}
      \cup {<<name>> : name \in TypeNames}
      \cup {format_type_name(ctx, name) : name \in TypeNames}

\* C29: every indexed-record type the mapper produces has a key that is
\* valid as an index key of the target type system: string, number, the
\* name of a named type or a type variable, whatever key type expression
\* the extractor produced (byte buffer and any-JSON-value included)
C29_RecordKeysValid ==
    \A i \in DOMAIN ts : ts[i] = "Record<" => KeyAt(i) \in ValidIndexKeys

----------------------------------------------------------------------------
(* What Found names *)

\* the reference of the last resolve_type call is a bare name that the
\* asking file does not declare and has imported
ThroughImport ==
    /\ Len(query.type_path) = 1
    /\ query.from_file \in DOMAIN files
    /\ query.type_path[1] \notin DOMAIN files[query.from_file].local_types
    /\ query.type_path[1] \in DOMAIN files[query.from_file].imports

\* the type name a reference resolves: its final segment, or the original
\* name when the reference is the alias of a renamed import
ResolvedName ==
    IF ThroughImport
    THEN Last(files[query.from_file].imports[query.type_path[1]])
    ELSE Last(query.type_path)

\* C30: whenever resolve_type returns Found(f), with every file ingested
\* once, f is an ingested file whose local declarations contain the
\* resolved type name: the final segment of the reference, or for a
\* reference made through a renamed import the original name
C30_FoundDeclares ==
    (query # NoQuery /\ result.tag = "Found") =>
        /\ result.files[1] \in DOMAIN files
        /\ ResolvedName \in DOMAIN files[result.files[1]].local_types

\* the alias Account of `use crate::a::User as Account;` has been resolved
\* to a.rs, which declares User and no Account
C30_Witness ==
    /\ query.type_path = <<"Account">>
    /\ query.from_file # ARs
    /\ result = Found(ARs)
    /\ ResolvedName = "User"
    /\ "Account" \notin DOMAIN files[ARs].local_types

====
